---- MODULE Spec2Model ----
(***************************************************************************)
(* State-machine model of the credential and session engine of             *)
(* mangle_web_engine (src/src/apps/auth): the Logins manager (failed-login *)
(* counters, lockout, username reservations), the Sessions store (a        *)
(* bidirectional username <-> session map with renewal and expiry) and the *)
(* /login and /sign_up handlers that drive them.                           *)
(*                                                                         *)
(* Time is a discrete monotonic clock `now` (std::time::Instant); an       *)
(* Instant is the clock value at which it was taken and elapsed() is       *)
(* now - instant.  Option<T> is modelled as a set: None is the empty set   *)
(* and Some(x) the singleton of x.                                         *)
(***************************************************************************)
EXTENDS Integers, FiniteSets, Sequences, TLC

\* ------------------------------------------------------------------ bounds
MaxTime == 3          \* the clock runs over 0..MaxTime
MaxFailsCfg == 2      \* max_fails is drawn from 0..MaxFailsCfg
MaxLockoutCfg == 2    \* lockout_time is drawn from 1..MaxLockoutCfg
MaxCleanupCfg == 2    \* cleanup_interval is 1 or MaxCleanupCfg
MaxSessionCfg == 2    \* max_session_duration is 1 or MaxSessionCfg
MaxRenewCfg == 2      \* max_renew_count is 0 or MaxRenewCfg
MaxRaceTime == 1      \* the clock runs over 0..MaxRaceTime while callers race
MaxUsernameLen == 3   \* is_valid_username is given up to MaxUsernameLen chars
                      \* on the lock of user_session_map

Usernames == {"alice", "bob"}
Tokens == {"k1", "k2", "k3"}   \* the values make_session_id can produce
Tasks == {"t1", "t2"}          \* concurrently running callers / request handlers
Passwords == {"pw1", "pw2"}    \* the passwords a form can carry

None == {}
Some(x) == {x}

\* ------------------------------------------------------------------- state
VARIABLES
    now,                   \* the monotonic clock read by Instant::now()
    cfg,                   \* construction-time configuration (never changes)
    failed_logins,         \* Logins.failed_logins: username -> FailedLoginAttempt
    tmp_reserved_names,    \* Logins.tmp_reserved_names: set of usernames
    logins_last_cleanup,   \* Logins.last_cleanup_time
    reservation,           \* the UsernameReservation each task holds (Option)
    user_session_map,      \* Sessions.user_session_map: set of (username, SessionData)
    sessions_last_cleanup, \* Sessions.last_cleanup_time
    credentials,           \* table PasswordUsers: username -> (salt, hash)
    req,                   \* the request each task is handling, and its response
    ret,                   \* the last call made and the value it returned
    fail_streak,           \* history: mark_failed_login calls since the last
                           \* mark_succesful_login, and the time of the last one
    renew_calls,           \* history: renew_session calls since create_session
    legacy_user_session_map, \* legacy Sessions.user_session_map: username -> id
    session_user_map,      \* legacy Sessions.session_user_map: id -> username
    sessions,              \* legacy Sessions.sessions: id -> SessionData
    used_challenges,       \* legacy Logins.used_challenges: set of challenges
    free_pipes             \* legacy Pipes.free_pipes

loginsVars == <<failed_logins, tmp_reserved_names, logins_last_cleanup, reservation,
                fail_streak>>
sessionsVars == <<user_session_map, sessions_last_cleanup, renew_calls>>
handlerVars == <<credentials, req>>
legacyVars == <<legacy_user_session_map, session_user_map, sessions, used_challenges,
                free_pipes>>
vars == <<now, cfg, ret, loginsVars, sessionsVars, handlerVars, legacyVars>>

lockout_time == cfg.lockout_time
max_fails == cfg.max_fails
cleanup_interval == cfg.cleanup_interval
max_session_duration == cfg.max_session_duration
max_renew_count == cfg.max_renew_count
min_username_len == cfg.min_username_len
max_username_len == cfg.max_username_len

\* ret.val is the value the call returned; ret.took is what the call took out
\* of the store it works on (the caller is not handed it)
Call(op, user, val, took) == [op |-> op, user |-> user, val |-> val, took |-> took]

\* ---------------------------------------------------------------- helpers
\* HashMap::remove and HashMap::insert on a map held as a function
MapRemove(m, k) == [x \in DOMAIN m \ {k} |-> m[x]]
MapInsert(m, k, v) == [x \in DOMAIN m \cup {k} |-> IF x = k THEN v ELSE m[x]]

\* u8 `+= 1`
U8Inc(x) == (x + 1) % 256

\* u8::MAX, the largest running_count, renew_count, max_fails and
\* max_renew_count
U8_MAX == 255

FailedLoginAttempt(c, t) == [running_count |-> c, time |-> t]

\* fail_streak[u].n counts the mark_failed_login(u) calls since construction or
\* the last mark_succesful_login(u), each made less than lockout_time after
\* the one before; any longer or slower streak is Broken
NoStreak == [n |-> 0, last |-> 0]
Broken == [n |-> -1, last |-> 0]

StreakAfterFail(s, t) ==
    IF s.n = 0 THEN [n |-> 1, last |-> t]
    ELSE IF s.n = -1 \/ s.n >= max_fails \/ t - s.last >= lockout_time THEN Broken
    ELSE [n |-> s.n + 1, last |-> t]

\* ----------------------------------------------------------------- locks
\* Each task runs one call at a time, a lock operation, a clock reading or a
\* map operation per step.  A task holds the write guard of failed_logins
\* from the write() at the top of mark_failed_login to its return (where the
\* callers of mark_failed_login race), and from the write() of line 157 to
\* the return of prune_expired
FailedLoginsWriters ==
    {t \in Tasks : req[t].pc \in {"mf_locked", "mf_removed", "lp_visit"}}

\* a write() that is granted while another task holds the guard
WriteLockFreeNoExclusion(holders, task) == TRUE

\* RwLock::write is granted once no other task holds a guard of the lock
WriteLockFree(holders, task) == holders \ {task} = {}

\* A task holds the write guard of user_session_map from the write() of
\* renew_session or prune_expired to its return
SessionsWriters ==
    {t \in Tasks : req[t].pc \in {"rn_removed", "pr_sweeping", "sp_visit"}}

\* a read() that is granted while a task holds the write guard
ReadLockFreeNoExclusion(writers) == TRUE

\* RwLock::read is granted once no task holds the write guard
ReadLockFree(writers) == writers = {}

\* the entries a `for (username, data) in map` has to visit
Entries(m) == {[username |-> u, data |-> m[u]] : u \in DOMAIN m}

\* -------------------------------------------------------------- Logins
\* Logins::is_user_locked_out, with the `>=` on the count taken as `>`
IsLockedOutStrictCount(m, username) ==
    IF username \in DOMAIN m
    THEN LET attempt == m[username]
             elapsed_time == now - attempt.time
         IN  IF attempt.running_count > max_fails /\ elapsed_time < lockout_time
             THEN Some(lockout_time - elapsed_time)
             ELSE None
    ELSE None

\* Logins::is_user_locked_out on the map m
IsLockedOut(m, username) ==
    IF username \in DOMAIN m
    THEN LET attempt == m[username]
             elapsed_time == now - attempt.time
         IN  IF attempt.running_count >= max_fails /\ elapsed_time < lockout_time
             THEN Some(lockout_time - elapsed_time)
             ELSE None
    ELSE None

is_user_locked_out(username) == IsLockedOut(failed_logins, username)

\* mark_failed_login that keeps counting past max_fails
FailedLoginsAfterFailNoReset(m, username) ==
    LET attempt ==
            IF username \in DOMAIN m
            THEN FailedLoginAttempt(U8Inc(m[username].running_count), now)
            ELSE FailedLoginAttempt(1, now)
    IN  MapInsert(MapRemove(m, username), username, attempt)

\* the map Logins::mark_failed_login leaves behind
FailedLoginsAfterFail(m, username) ==
    LET attempt ==
            IF username \in DOMAIN m
            THEN IF m[username].running_count >= max_fails
                 THEN FailedLoginAttempt(1, now)
                 ELSE FailedLoginAttempt(U8Inc(m[username].running_count), now)
            ELSE FailedLoginAttempt(1, now)
    IN  MapInsert(MapRemove(m, username), username, attempt)

\* mark_succesful_login that zeroes the count and keeps the entry
FailedLoginsAfterSuccessKeepEntry(m, username) ==
    IF username \in DOMAIN m
    THEN MapInsert(m, username, FailedLoginAttempt(0, m[username].time))
    ELSE m

\* the map Logins::mark_succesful_login leaves behind
FailedLoginsAfterSuccess(m, username) == MapRemove(m, username)

\* a turn of the loop that discards the counter whatever its age
FailedLoginsAfterVisitDiscard(writer, e) == writer

\* one turn of the loop of prune_expired (lines 160-164) over the entry e of
\* the old map: elapsed() reads the clock for this entry, and the entry goes
\* into the new map when it is younger than lockout_time
FailedLoginsAfterVisit(writer, e) ==
    IF now - e.data.time < lockout_time
    THEN MapInsert(writer, e.username, e.data)
    ELSE writer

\* A call made outside a request handler waits, as every caller does, for
\* the guard of the map it works on.
\* ret.took: the count of the entry HashMap::remove took out
mark_failed_login(username) ==
    /\ FailedLoginsWriters = {}
    /\ failed_logins' = FailedLoginsAfterFail(failed_logins, username)
    /\ fail_streak' = [fail_streak EXCEPT
                          ![username] = StreakAfterFail(fail_streak[username], now)]
    /\ ret' = Call("mark_failed_login", username, None,
                   IF username \in DOMAIN failed_logins
                   THEN Some(failed_logins[username].running_count) ELSE None)
    /\ UNCHANGED <<now, cfg, tmp_reserved_names, logins_last_cleanup, reservation,
                   sessionsVars, handlerVars>>
    /\ UNCHANGED legacyVars

mark_succesful_login(username) ==
    /\ FailedLoginsWriters = {}
    /\ failed_logins' = FailedLoginsAfterSuccess(failed_logins, username)
    /\ fail_streak' = [fail_streak EXCEPT ![username] = NoStreak]
    /\ ret' = Call("mark_succesful_login", username, None,
                   IF username \in DOMAIN failed_logins
                   THEN Some(failed_logins[username].running_count) ELSE None)
    /\ UNCHANGED <<now, cfg, tmp_reserved_names, logins_last_cleanup, reservation,
                   sessionsVars, handlerVars>>
    /\ UNCHANGED legacyVars

\* a task between calls, and the fields of a call or request in flight.
\* handler: the function the task runs; at: the Instant::now() that a
\* prune_expired has read and not yet stored; old: the entries of the old
\* map that the loop of a prune_expired has yet to visit
Idle == [pc |-> "idle", handler |-> "", at |-> 0, old |-> {}, username |-> "",
         password |-> "", lockout_over |-> FALSE, row |-> None, took |-> None,
         response |-> <<>>]
PruneCall == [Idle EXCEPT !.handler = "prune_expired"]

\* Logins::prune_expired, the test of line 151 under the read guard of
\* last_cleanup_time: a no-op unless cleanup_interval has elapsed
LoginsSweepDue == now - logins_last_cleanup >= cleanup_interval

\* where a task is when Logins::prune_expired has returned: back in its
\* caller, or in run_cleanups before Sessions::prune_expired
LoginsPruneReturned(r) ==
    IF r.handler = "prune_expired" THEN Idle
    ELSE [r EXCEPT !.pc = "sp_test", !.at = 0, !.old = {}]

\* line 151: the test, and the early return
LoginsPruneTest(task, r) ==
    /\ req' = [req EXCEPT ![task] =
                  IF LoginsSweepDue THEN [r EXCEPT !.pc = "lp_now"]
                  ELSE LoginsPruneReturned(r)]
    /\ ret' = IF ~LoginsSweepDue /\ r.handler = "prune_expired"
              THEN Call("logins_prune_expired", "", None, {})
              ELSE ret
    /\ UNCHANGED <<now, cfg, loginsVars, sessionsVars, credentials>>
    /\ UNCHANGED legacyVars

\* a call of Logins::prune_expired by a task, up to the test
logins_prune_expired(task) ==
    /\ req[task].pc = "idle"
    /\ LoginsPruneTest(task, PruneCall)

\* line 155, right-hand side: Instant::now(), read before the write guard of
\* last_cleanup_time is asked for
LoginsPruneNow(task) ==
    /\ req[task].pc = "lp_now"
    /\ req' = [req EXCEPT ![task].pc = "lp_store", ![task].at = now]
    /\ UNCHANGED <<now, cfg, ret, loginsVars, sessionsVars, credentials>>
    /\ UNCHANGED legacyVars

\* line 155: the store under the write guard of last_cleanup_time
LoginsPruneStore(task) ==
    /\ req[task].pc = "lp_store"
    /\ logins_last_cleanup' = req[task].at
    /\ req' = [req EXCEPT ![task].pc = "lp_sweep", ![task].at = 0]
    /\ UNCHANGED <<now, cfg, ret, failed_logins, tmp_reserved_names, reservation,
                   fail_streak, sessionsVars, credentials>>
    /\ UNCHANGED legacyVars

\* lines 157-158: the write guard of failed_logins is granted and the map is
\* replaced by an empty one; the loop over an empty old map ends at once
LoginsPruneSweep(task) ==
    /\ req[task].pc = "lp_sweep"
    /\ WriteLockFree(FailedLoginsWriters, task)
    /\ failed_logins' = << >>
    /\ IF failed_logins = << >>
       THEN /\ req' = [req EXCEPT ![task] = LoginsPruneReturned(req[task])]
            /\ ret' = IF req[task].handler = "prune_expired"
                      THEN Call("logins_prune_expired", "", Some("swept"), {})
                      ELSE ret
       ELSE /\ req' = [req EXCEPT ![task].pc = "lp_visit",
                                  ![task].old = Entries(failed_logins)]
            /\ ret' = ret
    /\ UNCHANGED <<now, cfg, tmp_reserved_names, logins_last_cleanup, reservation,
                   fail_streak, sessionsVars, credentials>>
    /\ UNCHANGED legacyVars

\* lines 160-164: one turn of the loop, on the entry the HashMap yields next;
\* after the last one the guard is dropped and prune_expired returns.
\* ret.took: the usernames whose counters the sweep discarded
LoginsPruneVisit(task) ==
    /\ req[task].pc = "lp_visit"
    /\ \E e \in req[task].old :
          LET r == req[task]
              writer == FailedLoginsAfterVisit(failed_logins, e)
              standalone == r.handler = "prune_expired"
              took == IF ~standalone THEN {}
                      ELSE IF e.username \in DOMAIN writer THEN r.took
                      ELSE r.took \cup {e.username}
          IN  /\ failed_logins' = writer
              /\ IF r.old = {e}
                 THEN /\ req' = [req EXCEPT ![task] = LoginsPruneReturned(r)]
                      /\ ret' = IF standalone
                                THEN Call("logins_prune_expired", "", Some("swept"), took)
                                ELSE ret
                 ELSE /\ req' = [req EXCEPT ![task] =
                                    IF standalone
                                    THEN [r EXCEPT !.old = @ \ {e}, !.took = took]
                                    ELSE [r EXCEPT !.old = @ \ {e}]]
                      /\ ret' = ret
    /\ UNCHANGED <<now, cfg, tmp_reserved_names, logins_last_cleanup, reservation,
                   fail_streak, sessionsVars, credentials>>
    /\ UNCHANGED legacyVars

\* is_user_locked_out that discards a counter whose lockout has run out
FailedLoginsAfterCheckEvicting(m, username) ==
    IF /\ username \in DOMAIN m
       /\ m[username].running_count >= max_fails
       /\ now - m[username].time >= lockout_time
    THEN MapRemove(m, username)
    ELSE m

\* the map Logins::is_user_locked_out leaves behind: it only takes the read
\* guard
FailedLoginsAfterCheck(m, username) == m

check_locked_out(username) ==
    /\ ReadLockFree(FailedLoginsWriters)
    /\ ret' = Call("is_user_locked_out", username, is_user_locked_out(username), None)
    /\ failed_logins' = FailedLoginsAfterCheck(failed_logins, username)
    /\ UNCHANGED <<now, cfg, tmp_reserved_names, logins_last_cleanup, reservation,
                   fail_streak, sessionsVars, handlerVars>>
    /\ UNCHANGED legacyVars

\* Drop that leaves the name in the set
ReservedAfterDropLeak(names, username) == names

\* the set Drop for UsernameReservation leaves behind
ReservedAfterDrop(names, username) == names \ {username}

\* Logins::reserve_username called by a task that holds no reservation:
\* HashSet::insert returns false when the name is present
reserve_username(task, username) ==
    /\ reservation[task] = None
    /\ IF username \in tmp_reserved_names
       THEN /\ UNCHANGED <<tmp_reserved_names, reservation>>
            /\ ret' = Call("reserve_username", username, None, None)
       ELSE /\ tmp_reserved_names' = tmp_reserved_names \cup {username}
            /\ reservation' = [reservation EXCEPT ![task] = Some(username)]
            /\ ret' = Call("reserve_username", username, Some(task), None)
    /\ UNCHANGED <<now, cfg, failed_logins, logins_last_cleanup, fail_streak,
                   sessionsVars, handlerVars>>
    /\ UNCHANGED legacyVars

\* Drop for UsernameReservation: the task's handle goes out of scope
drop_reservation(task) ==
    /\ reservation[task] # None
    /\ \E username \in reservation[task] :
          /\ tmp_reserved_names' = ReservedAfterDrop(tmp_reserved_names, username)
          /\ ret' = Call("drop_reservation", username, None, Some(task))
    /\ reservation' = [reservation EXCEPT ![task] = None]
    /\ UNCHANGED <<now, cfg, failed_logins, logins_last_cleanup, fail_streak,
                   sessionsVars, handlerVars>>
    /\ UNCHANGED legacyVars

\* ------------------------------------------------------------- Sessions
\* SessionData is compared and hashed by id alone (PartialEq, Hash, Borrow)
SessionData(id, t, c) == [id |-> id, creation_time |-> t, renew_count |-> c]
Pair(username, data) == [username |-> username, data |-> data]

\* bimap::BiMap<String, SessionData>, held as its set of (left, right) pairs
ContainsRight(m, id) == \E p \in m : p.data.id = id
RemoveByLeft(m, username) == {p \in m : p.username # username}
RemoveByRight(m, id) == {p \in m : p.data.id # id}
GetByLeft(m, username) == {p.data : p \in {q \in m : q.username = username}}
GetByRight(m, id) == {p.username : p \in {q \in m : q.data.id = id}}
\* the ids of the sessions a username maps to
TokensOf(m, username) == {d.id : d \in GetByLeft(m, username)}
\* BiMap::insert overwrites the pairs that hold the same left or the same right
BiInsert(m, username, data) ==
    RemoveByRight(RemoveByLeft(m, username), data.id) \cup {Pair(username, data)}

\* Sessions::get_session_owner on the map m
GetSessionOwner(m, id) == GetByRight(m, id)

get_session_owner(id) == GetSessionOwner(user_session_map, id)

\* create_session that keeps the first id make_session_id draws
FirstDrawnIds(m) == Tokens

\* the ids the loop of create_session can end on: make_session_id is drawn
\* again while the map holds the id
FreshIds(m) == {id \in Tokens : ~ContainsRight(m, id)}

\* create_session that hands the user's live id back when there is one
FreshIdsReusingOwn(m, username) ==
    IF GetByLeft(m, username) # {}
    THEN {d.id : d \in GetByLeft(m, username)}
    ELSE FreshIds(m)

\* the ids create_session(username) can return
NewSessionIds(m, username) == FreshIds(m)

\* create_session that adds the pair and leaves the user's old pair in place
SessionsAfterCreateStacking(m, username, id) ==
    m \cup {Pair(username, SessionData(id, now, 0))}

\* the map Sessions::create_session leaves behind
SessionsAfterCreate(m, username, id) ==
    BiInsert(m, username, SessionData(id, now, 0))

\* renew_session whose limit test is `>` in place of `>=`
RenewSessionOffByOne(m, username) ==
    IF GetByLeft(m, username) = {} THEN [map |-> m, val |-> None]
    ELSE LET data == CHOOSE d \in GetByLeft(m, username) : TRUE
             removed == RemoveByLeft(m, username)
             renew_count == U8Inc(data.renew_count)
         IN  IF data.renew_count > max_renew_count
             THEN [map |-> removed, val |-> None]
             ELSE [map |-> BiInsert(removed, username,
                                    SessionData(data.id, now, renew_count)),
                   val |-> Some(max_renew_count - renew_count)]

\* Sessions::renew_session: the map it leaves behind and the value it
\* returns.  The pair is taken out by remove_by_left and put back only when
\* the renewal is granted
RenewSession(m, username) ==
    IF GetByLeft(m, username) = {} THEN [map |-> m, val |-> None]
    ELSE LET data == CHOOSE d \in GetByLeft(m, username) : TRUE
             removed == RemoveByLeft(m, username)
             renew_count == U8Inc(data.renew_count)
         IN  IF data.renew_count >= max_renew_count
             THEN [map |-> removed, val |-> None]
             ELSE [map |-> BiInsert(removed, username,
                                    SessionData(data.id, now, renew_count)),
                   val |-> Some(max_renew_count - renew_count)]

\* a turn of the loop with `>` in place of `>=`
SessionsAfterVisitLate(writer, p) ==
    IF now - p.data.creation_time > max_session_duration
    THEN RemoveByRight(writer, p.data.id)
    ELSE BiInsert(writer, p.username, p.data)

\* one turn of the loop of Sessions::prune_expired (lines 361-367) over the
\* pair p of the old map: elapsed() reads the clock for this pair
SessionsAfterVisit(writer, p) ==
    IF now - p.data.creation_time >= max_session_duration
    THEN RemoveByRight(writer, p.data.id)
    ELSE BiInsert(writer, p.username, p.data)

\* the turns of the loop over the pairs of old_sessions that are made within
\* one reading of the clock, writing into the new map
RECURSIVE SweepSessions(_, _)
SweepSessions(writer, old_sessions) ==
    IF old_sessions = {} THEN writer
    ELSE LET p == CHOOSE q \in old_sessions : TRUE
         IN  SweepSessions(SessionsAfterVisit(writer, p), old_sessions \ {p})

\* history: renew_calls[u] is the number of renew_session(u) calls made since
\* the create_session(u) that made u's session, while nothing else has taken
\* the session away (-1: no such session); a sweep ends the count of every
\* session it evicts
RenewCallsAfter(calls, m, username) ==
    IF GetByLeft(m, username) = {} THEN [calls EXCEPT ![username] = -1] ELSE calls

create_session(username) ==
    /\ SessionsWriters = {}
    /\ \E id \in NewSessionIds(user_session_map, username) :
          /\ user_session_map' = SessionsAfterCreate(user_session_map, username, id)
          /\ ret' = Call("create_session", username, Some(id),
                       TokensOf(user_session_map, username))
    /\ renew_calls' = [renew_calls EXCEPT ![username] = 0]
    /\ UNCHANGED <<now, cfg, loginsVars, sessions_last_cleanup, handlerVars>>
    /\ UNCHANGED legacyVars

renew_session(username) ==
    /\ SessionsWriters = {}
    /\ user_session_map' = RenewSession(user_session_map, username).map
    /\ ret' = Call("renew_session", username,
                   RenewSession(user_session_map, username).val,
                   TokensOf(user_session_map, username)
                       \ TokensOf(RenewSession(user_session_map, username).map,
                                  username))
    /\ renew_calls' = [renew_calls EXCEPT
                          ![username] = IF @ = -1 \/ @ > max_renew_count
                                        THEN -1 ELSE @ + 1]
    /\ UNCHANGED <<now, cfg, loginsVars, sessions_last_cleanup, handlerVars>>
    /\ UNCHANGED legacyVars

\* remove_session that empties the store
SessionsAfterRemoveAll(m, username) == {}

\* the map Sessions::remove_session leaves behind
SessionsAfterRemove(m, username) == RemoveByLeft(m, username)

remove_session(username) ==
    /\ SessionsWriters = {}
    /\ user_session_map' = SessionsAfterRemove(user_session_map, username)
    /\ ret' = Call("remove_session", username, None,
                   TokensOf(user_session_map, username))
    /\ renew_calls' = [renew_calls EXCEPT ![username] = -1]
    /\ UNCHANGED <<now, cfg, loginsVars, sessions_last_cleanup, handlerVars>>
    /\ UNCHANGED legacyVars

\* Sessions::prune_expired, the test of line 352 under the read guard of
\* last_cleanup_time: a no-op unless cleanup_interval has elapsed
SessionsSweepDue == now - sessions_last_cleanup >= cleanup_interval

\* where a task is when Sessions::prune_expired has returned: back in its
\* caller, or in the handler after run_cleanups
SessionsPruneReturned(r) ==
    IF r.handler = "login" THEN [r EXCEPT !.pc = "login_gate", !.at = 0, !.old = {}]
    ELSE IF r.handler = "sign_up"
    THEN [r EXCEPT !.pc = "su_validate", !.at = 0, !.old = {}]
    ELSE Idle

\* line 352: the test, and the early return
SessionsPruneTest(task, r) ==
    /\ req' = [req EXCEPT ![task] =
                  IF SessionsSweepDue THEN [r EXCEPT !.pc = "sp_now"]
                  ELSE SessionsPruneReturned(r)]
    /\ ret' = IF ~SessionsSweepDue /\ r.handler = "prune_expired"
              THEN Call("sessions_prune_expired", "", None, {})
              ELSE ret
    /\ UNCHANGED <<now, cfg, loginsVars, sessionsVars, credentials>>
    /\ UNCHANGED legacyVars

\* a call of Sessions::prune_expired by a task, up to the test
sessions_prune_expired(task) ==
    /\ req[task].pc = "idle"
    /\ SessionsPruneTest(task, PruneCall)

\* run_cleanups, second call: Sessions::prune_expired up to the test
RunCleanupsSessions(task) ==
    /\ req[task].pc = "sp_test"
    /\ SessionsPruneTest(task, req[task])

\* line 356, right-hand side: Instant::now(), read before the write guard of
\* last_cleanup_time is asked for
SessionsPruneNow(task) ==
    /\ req[task].pc = "sp_now"
    /\ req' = [req EXCEPT ![task].pc = "sp_store", ![task].at = now]
    /\ UNCHANGED <<now, cfg, ret, loginsVars, sessionsVars, credentials>>
    /\ UNCHANGED legacyVars

\* line 356: the store under the write guard of last_cleanup_time
SessionsPruneStore(task) ==
    /\ req[task].pc = "sp_store"
    /\ sessions_last_cleanup' = req[task].at
    /\ req' = [req EXCEPT ![task].pc = "sp_sweep", ![task].at = 0]
    /\ UNCHANGED <<now, cfg, ret, loginsVars, user_session_map, renew_calls, credentials>>
    /\ UNCHANGED legacyVars

\* lines 358-359: the write guard of user_session_map is granted and the map
\* is replaced by an empty one; the loop over an empty old map ends at once
SessionsPruneSweep(task) ==
    /\ req[task].pc = "sp_sweep"
    /\ WriteLockFree(SessionsWriters, task)
    /\ user_session_map' = {}
    /\ IF user_session_map = {}
       THEN /\ req' = [req EXCEPT ![task] = SessionsPruneReturned(req[task])]
            /\ ret' = IF req[task].handler = "prune_expired"
                      THEN Call("sessions_prune_expired", "", Some("swept"), {})
                      ELSE ret
       ELSE /\ req' = [req EXCEPT ![task].pc = "sp_visit",
                                  ![task].old = user_session_map]
            /\ ret' = ret
    /\ UNCHANGED <<now, cfg, loginsVars, sessions_last_cleanup, renew_calls,
                   credentials>>
    /\ UNCHANGED legacyVars

\* lines 361-367: one turn of the loop, on the pair the BiMap yields next;
\* after the last one the guard is dropped and prune_expired returns.
\* ret.took: the ids of the sessions the sweep evicted
SessionsPruneVisit(task) ==
    /\ req[task].pc = "sp_visit"
    /\ \E p \in req[task].old :
          LET r == req[task]
              writer == SessionsAfterVisit(user_session_map, p)
              standalone == r.handler = "prune_expired"
              took == IF ~standalone THEN {}
                      ELSE IF p \in writer THEN r.took
                      ELSE r.took \cup {p.data.id}
          IN  /\ user_session_map' = writer
              /\ renew_calls' = RenewCallsAfter(renew_calls, writer, p.username)
              /\ IF r.old = {p}
                 THEN /\ req' = [req EXCEPT ![task] = SessionsPruneReturned(r)]
                      /\ ret' = IF standalone
                                THEN Call("sessions_prune_expired", "", Some("swept"), took)
                                ELSE ret
                 ELSE /\ req' = [req EXCEPT ![task] =
                                    IF standalone
                                    THEN [r EXCEPT !.old = @ \ {p}, !.took = took]
                                    ELSE [r EXCEPT !.old = @ \ {p}]]
                      /\ ret' = ret
    /\ UNCHANGED <<now, cfg, loginsVars, sessions_last_cleanup, credentials>>
    /\ UNCHANGED legacyVars

lookup_session_owner(id) ==
    /\ ReadLockFree(SessionsWriters)
    /\ ret' = Call("get_session_owner", id, get_session_owner(id), None)
    /\ UNCHANGED <<now, cfg, loginsVars, sessionsVars, handlerVars>>
    /\ UNCHANGED legacyVars

\* ------------------------------------------------------------ handlers
\* argon2 hash_raw and verify_raw: the hash is a function of password and
\* salt that differs for different passwords
\* a verification that accepts every password
VerifyRawAlwaysTrue(password, true_salt, true_hash) == TRUE

hash_raw(password, salt) == <<"argon2", password, salt>>
verify_raw(password, true_salt, true_hash) == hash_raw(password, true_salt) = true_hash

\* the rows of PasswordUsers when the server starts: alice has signed up
Registered == [u \in {"alice"} |-> [salt |-> "s1", hash |-> hash_raw("pw1", "s1")]]

\* history: when the handler makes its lockout test the user's stored
\* counter has reached max_fails and its lockout window has run out
LockoutOver(username) ==
    /\ username \in DOMAIN failed_logins
    /\ failed_logins[username].running_count >= max_fails
    /\ now - failed_logins[username].time >= lockout_time

\* a /login request in flight
Request(pc, username, password, row) ==
    [pc |-> pc, handler |-> "login", at |-> 0, old |-> {}, username |-> username,
     password |-> password, lockout_over |-> FALSE,
     row |-> row, took |-> None, response |-> <<>>]
\* the handler has returned (status, body); took: the failure count that
\* mark_succesful_login removed on the way
Done(r, status, body) ==
    [pc |-> "done", handler |-> r.handler, at |-> 0, old |-> {},
     username |-> r.username,
     password |-> r.password, lockout_over |-> r.lockout_over, row |-> None,
     took |-> r.took, response |-> <<status, body>>]

\* a /login handler that never consults the lockout
LockoutGateOpen(m, username) == None

\* the lockout test at the top of get_session_with_password
LockoutGate(m, username) == IsLockedOut(m, username)

\* /login, line 123: run_cleanups up to the test of Logins::prune_expired
LoginBegin(task, username, password) ==
    /\ req[task].pc \in {"idle", "done"}
    /\ LoginsPruneTest(task, Request("lp_test", username, password, None))

\* /login, lines 129-131: is_user_locked_out under the read guard of
\* failed_logins, and the Forbidden response
LoginGate(task) ==
    /\ req[task].pc = "login_gate"
    /\ ReadLockFree(FailedLoginsWriters)
    /\ LET r == [req[task] EXCEPT !.lockout_over = LockoutOver(req[task].username)]
           remaining_time == LockoutGate(failed_logins, r.username)
       IN  req' = [req EXCEPT ![task] =
                      IF remaining_time # None
                      THEN Done(r, "Forbidden", remaining_time)
                      ELSE [r EXCEPT !.pc = "login_query"]]
    /\ UNCHANGED <<now, cfg, ret, loginsVars, sessionsVars, credentials>>
    /\ UNCHANGED legacyVars

\* the SELECT on PasswordUsers: a row, no row, or a database error
LoginQuery(task) ==
    /\ req[task].pc = "login_query"
    /\ LET r == req[task]
       IN  \E outcome \in {"ok", "err"} :
             req' = [req EXCEPT ![task] =
                        IF outcome = "err" THEN Done(r, "NotFound", "BUG")
                        ELSE IF r.username \notin DOMAIN credentials
                        THEN Done(r, "BadRequest", "User does not exist")
                        ELSE [r EXCEPT !.pc = "login_verify",
                                       !.row = Some(credentials[r.username])]]
    /\ UNCHANGED <<now, cfg, ret, loginsVars, sessionsVars, credentials>>
    /\ UNCHANGED legacyVars

\* an Err arm that counts the attempt as a failed login
FailedLoginsAfterFaultCounted(m, username) == FailedLoginsAfterFail(m, username)

\* the Err arm of the match on verify_password: it logs the error and calls
\* nothing on the Logins
FailedLoginsAfterFault(m, username) == m

\* verify_password and the arm taken on its result: Ok(true) marks the login
\* successful, Ok(false) marks it failed (each under the write guard of
\* failed_logins), Err answers with the bug response
LoginVerify(task) ==
    /\ req[task].pc = "login_verify"
    /\ LET r == req[task]
           row == CHOOSE x \in r.row : TRUE
       IN  \E outcome \in {"ok", "err"} :
             IF outcome = "err"
             THEN /\ req' = [req EXCEPT ![task] = Done(r, "NotFound", "BUG")]
                  /\ failed_logins' = FailedLoginsAfterFault(failed_logins, r.username)
                  /\ UNCHANGED fail_streak
             ELSE IF verify_raw(r.password, row.salt, row.hash)
             THEN /\ WriteLockFree(FailedLoginsWriters, task)
                  /\ failed_logins' = FailedLoginsAfterSuccess(failed_logins, r.username)
                  /\ fail_streak' = [fail_streak EXCEPT ![r.username] = NoStreak]
                  /\ req' = [req EXCEPT ![task] =
                                [r EXCEPT !.pc = "login_session",
                                          !.row = None,
                                          !.took =
                                              IF r.username \in DOMAIN failed_logins
                                              THEN Some(failed_logins[r.username].running_count)
                                              ELSE None]]
             ELSE /\ WriteLockFree(FailedLoginsWriters, task)
                  /\ failed_logins' = FailedLoginsAfterFail(failed_logins, r.username)
                  /\ fail_streak' = [fail_streak EXCEPT
                         ![r.username] = StreakAfterFail(fail_streak[r.username], now)]
                  /\ req' = [req EXCEPT ![task] = Done(r, "Unauthorized", "")]
    /\ UNCHANGED <<now, cfg, ret, tmp_reserved_names, logins_last_cleanup,
                   reservation, sessionsVars, credentials>>
    /\ UNCHANGED legacyVars

\* the response of the Ok(true) arm: the id create_session returns
LoginCreateSession(task) ==
    /\ req[task].pc = "login_session"
    /\ WriteLockFree(SessionsWriters, task)
    /\ \E id \in NewSessionIds(user_session_map, req[task].username) :
          /\ user_session_map' =
                SessionsAfterCreate(user_session_map, req[task].username, id)
          /\ req' = [req EXCEPT ![task] = Done(req[task], "Ok", id)]
    /\ renew_calls' = [renew_calls EXCEPT ![req[task].username] = 0]
    /\ UNCHANGED <<now, cfg, ret, loginsVars, sessions_last_cleanup, credentials>>
    /\ UNCHANGED legacyVars

\* ------------------------------------------------------------- /sign_up
\* form values that Logins::is_valid_username and Logins::is_valid_password
\* refuse: a name with whitespace in it, a password the regex does not match
BadUsernames == {"a b"}
BadPasswords == {"weak"}
\* the salts hash_password can draw
Salts == {"s1", "s2"}

is_valid_username(username) ==
    IF username \in BadUsernames THEN "ContainsWhitespace" ELSE "Ok"
is_valid_password(password) == password \notin BadPasswords

\* a /sign_up request in flight; reserved: reserve_username has handed this
\* request a handle
SignUp(pc, username, password, reserved) ==
    [pc |-> pc, handler |-> "sign_up", at |-> 0, old |-> {}, username |-> username,
     password |-> password, reserved |-> reserved, response |-> <<>>]
SignUpDone(r, status, body) ==
    [pc |-> "done", handler |-> r.handler, at |-> 0, old |-> {},
     username |-> r.username,
     password |-> r.password, reserved |-> r.reserved, response |-> <<status, body>>]

\* /sign_up, line 175: run_cleanups up to the test of Logins::prune_expired
SignUpBegin(task, username, password) ==
    /\ req[task].pc \in {"idle", "done"}
    /\ LoginsPruneTest(task, SignUp("lp_test", username, password, FALSE))

\* /sign_up after run_cleanups, through `let _ = ... reserve_username ...`:
\* the two validations and the reservation
SignUpValidate(task) ==
    /\ req[task].pc = "su_validate"
    /\ LET r == [req[task] EXCEPT !.pc = "su_reserved"]
           username == r.username
       IN  IF is_valid_username(username) # "Ok"
           THEN /\ req' = [req EXCEPT ![task] =
                              SignUpDone(r, "BadRequest", "Username contains whitespace")]
                /\ UNCHANGED <<tmp_reserved_names, reservation>>
           ELSE IF ~is_valid_password(r.password)
           THEN /\ req' = [req EXCEPT ![task] =
                              SignUpDone(r, "BadRequest",
                                         "Password does not fit the requirements")]
                /\ UNCHANGED <<tmp_reserved_names, reservation>>
           ELSE IF username \in tmp_reserved_names
           THEN /\ req' = [req EXCEPT ![task] =
                              SignUpDone(r, "BadRequest", "Username already in use")]
                /\ UNCHANGED <<tmp_reserved_names, reservation>>
           ELSE /\ tmp_reserved_names' = tmp_reserved_names \cup {username}
                /\ reservation' = [reservation EXCEPT ![task] = Some(username)]
                /\ req' = [req EXCEPT ![task] = [r EXCEPT !.reserved = TRUE]]
    /\ UNCHANGED <<now, cfg, ret, failed_logins, logins_last_cleanup, fail_streak,
                   sessionsVars, credentials>>
    /\ UNCHANGED legacyVars

\* the end of the `let _ =` statement: the handle it was given is not bound
\* to a name, so it is dropped here
SignUpDrop(task) ==
    /\ req[task].pc = "su_reserved"
    /\ \E username \in reservation[task] :
          tmp_reserved_names' = ReservedAfterDrop(tmp_reserved_names, username)
    /\ reservation' = [reservation EXCEPT ![task] = None]
    /\ req' = [req EXCEPT ![task].pc = "su_insert"]
    /\ UNCHANGED <<now, cfg, ret, failed_logins, logins_last_cleanup, fail_streak,
                   sessionsVars, credentials>>
    /\ UNCHANGED legacyVars

\* an INSERT into a table without the unique Username column
UsernameTakenNever(rows, username) == FALSE

\* the uniqueness of PasswordUsers.Username: the INSERT of a name that has a
\* row fails with code 1555
UsernameTaken(rows, username) == username \in DOMAIN rows

\* hash_password and the INSERT into PasswordUsers, whose Username column is
\* unique: the hashing fails, the database fails, the name is taken (code
\* 1555) or the row is written
SignUpInsert(task) ==
    /\ req[task].pc = "su_insert"
    /\ LET r == req[task]
       IN  \E outcome \in {"hash_err", "db_err", "ok"}, salt \in Salts :
             IF outcome = "hash_err"
             THEN /\ req' = [req EXCEPT ![task] = SignUpDone(r, "NotFound", "BUG")]
                  /\ UNCHANGED credentials
             ELSE IF outcome = "db_err"
             THEN /\ req' = [req EXCEPT ![task] =
                                SignUpDone(r, "InternalServerError", "BUG")]
                  /\ UNCHANGED credentials
             ELSE IF UsernameTaken(credentials, r.username)
             THEN /\ req' = [req EXCEPT ![task] =
                                SignUpDone(r, "BadRequest", "Username is already in use")]
                  /\ UNCHANGED credentials
             ELSE /\ credentials' =
                        MapInsert(credentials, r.username,
                                  [salt |-> salt, hash |-> hash_raw(r.password, salt)])
                  /\ req' = [req EXCEPT ![task].pc = "su_session"]
    /\ UNCHANGED <<now, cfg, ret, loginsVars, sessionsVars>>
    /\ UNCHANGED legacyVars

\* the Ok response: the id create_session returns
SignUpCreateSession(task) ==
    /\ req[task].pc = "su_session"
    /\ WriteLockFree(SessionsWriters, task)
    /\ \E id \in NewSessionIds(user_session_map, req[task].username) :
          /\ user_session_map' =
                SessionsAfterCreate(user_session_map, req[task].username, id)
          /\ req' = [req EXCEPT ![task] = SignUpDone(req[task], "Ok", id)]
    /\ renew_calls' = [renew_calls EXCEPT ![req[task].username] = 0]
    /\ UNCHANGED <<now, cfg, ret, loginsVars, sessions_last_cleanup, credentials>>
    /\ UNCHANGED legacyVars

\* ------------------------------------------- is_valid_username, by character
\* a username as the sequence of its chars; one char of each kind the checks
\* tell apart: an ASCII letter, a space, punctuation, a two-byte letter (e with an acute accent)
Chars == {"a", " ", "-", "e_acute"}
is_whitespace(c) == c = " "
is_alphanumeric(c) == c \in {"a", "e_acute"}
len_utf8(c) == IF c = "e_acute" THEN 2 ELSE 1

\* str::len: the length in bytes
RECURSIVE StrLen(_)
StrLen(username) ==
    IF username = << >> THEN 0
    ELSE len_utf8(Head(username)) + StrLen(Tail(username))

\* the same checks with the two length checks ahead of the whitespace check
IsValidUsernameLengthFirst(username, flagged) ==
    IF StrLen(username) < min_username_len THEN "TooShort"
    ELSE IF StrLen(username) > max_username_len THEN "TooLong"
    ELSE IF \E i \in DOMAIN username : is_whitespace(username[i])
    THEN "ContainsWhitespace"
    ELSE IF ~(\A i \in DOMAIN username : is_alphanumeric(username[i]))
    THEN "IsNotAlphanumeric"
    ELSE IF flagged THEN "Inappropriate"
    ELSE "Ok"

\* Logins::is_valid_username; flagged: the verdict of rustrict's
\* is_inappropriate on the username
is_valid_username_chars(username, flagged) ==
    IF \E i \in DOMAIN username : is_whitespace(username[i])
    THEN "ContainsWhitespace"
    ELSE IF StrLen(username) < min_username_len THEN "TooShort"
    ELSE IF StrLen(username) > max_username_len THEN "TooLong"
    ELSE IF ~(\A i \in DOMAIN username : is_alphanumeric(username[i]))
    THEN "IsNotAlphanumeric"
    ELSE IF flagged THEN "Inappropriate"
    ELSE "Ok"

\* the usernames of at most MaxUsernameLen chars
UsernameInputs == UNION {[1..n -> Chars] : n \in 0..MaxUsernameLen}

\* the call is_valid_username(ret.user) on the username drawn at the start
ValidateUsername ==
    /\ ret.op = "input"
    /\ ret' = Call("is_valid_username", ret.user,
                   is_valid_username_chars(ret.user, ret.took), ret.took)
    /\ UNCHANGED <<now, cfg, loginsVars, sessionsVars, handlerVars>>
    /\ UNCHANGED legacyVars

\* ------------------------------------- legacy Logins (src/src/singletons.rs)
\* The legacy manager keeps the credentials in user_cred_map (held in
\* `credentials`); reservation[task] is the UserCreationPromise a task holds
\* and req[task] carries its password_hash
UserCreationPromise(username, password_hash) ==
    [pc |-> "promise", username |-> username, password_hash |-> password_hash,
     took |-> None]

\* The tasks that hold a read guard of user_cred_map across steps: the guard
\* taken in the scrutinee of the match of try_login_key (line 420) and of
\* try_login_password (line 386) lives to the end of the match.  Every
\* other guard of user_cred_map lives for one statement
UserCredReaders ==
    {t \in Tasks : \/ req[t].pc = "lk_lock"
                   \/ "cred_guard" \in DOMAIN req[t] /\ req[t].cred_guard}

\* an add_user call between its two lock sections
AddUserCall(username, password) ==
    [pc |-> "au_read", username |-> username, password |-> password]

\* legacy Logins::add_user called by a task that holds no promise, up to the
\* release of the mutex of tmp_reserved_names: the tests of the username and
\* of the password, and tmp_reserved_names.lock().unwrap().contains(..).
\* The only uses of tmp_reserved_names are the `contains` here and the
\* `remove` in Drop, the name is never inserted
add_user(task, username, password) ==
    /\ req[task].pc \in {"idle", "returned"}
    /\ reservation[task] = None
    /\ IF username \in BadUsernames
       THEN /\ ret' = Call("add_user", username, <<"Err", "BadUsername">>, None)
            /\ UNCHANGED req
       ELSE IF password \in BadPasswords
       THEN /\ ret' = Call("add_user", username, <<"Err", "BadPassword">>, None)
            /\ UNCHANGED req
       ELSE IF username \in tmp_reserved_names
       THEN /\ ret' = Call("add_user", username, <<"Err", "UsernameInUse">>, None)
            /\ UNCHANGED req
       ELSE /\ req' = [req EXCEPT ![task] = AddUserCall(username, password)]
            /\ UNCHANGED ret
    /\ UNCHANGED <<now, cfg, failed_logins, tmp_reserved_names, logins_last_cleanup,
                   reservation, fail_streak, sessionsVars, credentials>>
    /\ UNCHANGED legacyVars

\* add_user from user_cred_map.read().unwrap().contains_key(..) to its
\* return: the read guard lives for the test, then the salt is drawn and
\* hash_encoded makes the password_hash of the promise
add_user_read(task) ==
    /\ req[task].pc = "au_read"
    /\ LET username == req[task].username
           password == req[task].password
       IN  IF username \in DOMAIN credentials
           THEN /\ ret' = Call("add_user", username, <<"Err", "UsernameInUse">>, None)
                /\ req' = [req EXCEPT ![task] = Idle]
                /\ UNCHANGED reservation
           ELSE \E outcome \in {"ok", "err"}, salt \in Salts :
                   IF outcome = "err"
                   THEN /\ ret' = Call("add_user", username, <<"Err", "ArgonError">>, None)
                        /\ req' = [req EXCEPT ![task] = Idle]
                        /\ UNCHANGED reservation
                   ELSE /\ ret' = Call("add_user", username, <<"Ok", task>>, None)
                        /\ reservation' = [reservation EXCEPT ![task] = Some(username)]
                        /\ req' = [req EXCEPT ![task] =
                                      UserCreationPromise(username,
                                          [salt |-> salt,
                                           hash |-> hash_raw(password, salt)])]
    /\ UNCHANGED <<now, cfg, failed_logins, tmp_reserved_names, logins_last_cleanup,
                   fail_streak, sessionsVars, credentials>>
    /\ UNCHANGED legacyVars

\* UserCreationPromise::finalize(self), line 239: the insert under the write
\* guard of user_cred_map, which waits for the read guards of the logins in
\* flight; the guard is released at the end of the statement, the promise
\* is alive until the Drop of self
promise_finalize(task) ==
    /\ req[task].pc = "promise"
    /\ WriteLockFree(UserCredReaders, task)
    /\ LET username == req[task].username
       IN  /\ credentials' = MapInsert(credentials, username, req[task].password_hash)
           /\ req' = [req EXCEPT ![task].pc = "finalized",
                                 ![task].took = IF username \in DOMAIN credentials
                                                THEN Some(credentials[username])
                                                ELSE None]
    /\ UNCHANGED <<now, cfg, ret, loginsVars, sessionsVars>>
    /\ UNCHANGED legacyVars

\* Drop for UserCreationPromise (lines 230-234) under the mutex of
\* tmp_reserved_names: at the end of finalize, or of a promise that goes out
\* of scope without it
promise_drop(task) ==
    /\ req[task].pc \in {"promise", "finalized"}
    /\ tmp_reserved_names' = ReservedAfterDrop(tmp_reserved_names, req[task].username)
    /\ ret' = IF req[task].pc = "finalized"
              THEN Call("finalize", req[task].username, Some(task), req[task].took)
              ELSE Call("drop_promise", req[task].username, Some(task), None)
    /\ reservation' = [reservation EXCEPT ![task] = None]
    /\ req' = [req EXCEPT ![task] = Idle]
    /\ UNCHANGED <<now, cfg, failed_logins, logins_last_cleanup, fail_streak,
                   sessionsVars, credentials>>
    /\ UNCHANGED legacyVars

\* the UserDeletionPromise a task holds
UserDeletionPromise(username) == [pc |-> "deletion", username |-> username]

\* legacy Logins::delete_user called by a task that holds no promise: Some
\* for a name user_cred_map holds, None otherwise
delete_user(task, username) ==
    /\ req[task].pc \in {"idle", "returned"}
    /\ reservation[task] = None
    /\ IF username \in DOMAIN credentials
       THEN /\ req' = [req EXCEPT ![task] = UserDeletionPromise(username)]
            /\ ret' = Call("delete_user", username, Some(task), None)
       ELSE /\ req' = [req EXCEPT ![task] = Idle]
            /\ ret' = Call("delete_user", username, None, None)
    /\ UNCHANGED <<now, cfg, loginsVars, sessionsVars, credentials>>
    /\ UNCHANGED legacyVars

\* UserDeletionPromise::finalize(self), line 252: the remove under the write
\* guard of user_cred_map, which waits for the read guards of the logins in
\* flight
deletion_finalize(task) ==
    /\ req[task].pc = "deletion"
    /\ WriteLockFree(UserCredReaders, task)
    /\ credentials' = MapRemove(credentials, req[task].username)
    /\ ret' = Call("finalize_deletion", req[task].username, Some(task),
                   IF req[task].username \in DOMAIN credentials
                   THEN Some(credentials[req[task].username]) ELSE None)
    /\ req' = [req EXCEPT ![task] = Idle]
    /\ UNCHANGED <<now, cfg, loginsVars, sessionsVars>>
    /\ UNCHANGED legacyVars

\* the UserDeletionPromise goes out of scope without finalize (the handler
\* has returned before line 177): it has no Drop, nothing changes
deletion_drop(task) ==
    /\ req[task].pc = "deletion"
    /\ ret' = Call("drop_deletion", req[task].username, Some(task), None)
    /\ req' = [req EXCEPT ![task] = Idle]
    /\ UNCHANGED <<now, cfg, loginsVars, sessionsVars, credentials>>
    /\ UNCHANGED legacyVars

\* ------------------------------- legacy Logins::try_login_password
\* the users of the legacy user_cred_map: alice logs in with a password, bob
\* with a key, carol is unknown
LegacyNames == Usernames \cup {"carol"}
LegacyRegistered ==
    [u \in Usernames |->
        IF u = "alice" THEN [salt |-> "s1", hash |-> hash_raw("pw1", "s1")]
        ELSE [key |-> "key_bob"]]

\* a try_login_password call in flight; reader: the call holds the read guard
\* `reader` on failed_logins; cred_guard: it holds the read guard of
\* user_cred_map of line 386; parked: it sleeps in a write() on failed_logins
\* that found the lock held; poisoned: it panicked while it held the write
\* guard of failed_logins
LegacyLogin(pc, username, password, reader) ==
    [pc |-> pc, username |-> username, password |-> password, reader |-> reader,
     cred_guard |-> FALSE, parked |-> FALSE, poisoned |-> FALSE, response |-> <<>>]
LegacyReturned(r, result) ==
    [pc |-> "returned", username |-> r.username, password |-> r.password,
     reader |-> FALSE, cred_guard |-> FALSE, parked |-> FALSE, poisoned |-> FALSE,
     response |-> <<result>>]

\* RwLock::write on failed_logins by a thread that holds a read guard on it:
\* the call deadlocks or panics, whichever the platform's lock does
WriteUnderOwnReadGuard == {"blocked", "panicked"}

\* the unwinding of a panic drops the guards the call holds
LegacyPanicked(r) ==
    [r EXCEPT !.pc = "panicked", !.reader = FALSE, !.cred_guard = FALSE,
              !.parked = FALSE]

\* the call is left at its write(): a blocked thread keeps the guards it
\* holds and sleeps for ever
LegacyStuck(r) == {[r EXCEPT !.pc = "blocked"], LegacyPanicked(r)}

\* the tasks that hold a read guard on the legacy failed_logins
FailedLoginsReaders ==
    {t \in Tasks : "reader" \in DOMAIN req[t] /\ req[t].reader}

\* the cleanup task that Logins::new spawns (lines 299-306)
CleanupTask == "cleanup"

\* the cleanup task holds the write guard of failed_logins from the write()
\* of line 313 to the return of prune_expired
LegacySweeping == \E t \in DOMAIN req : req[t].pc = "lx_visit"

\* RwLock::write on failed_logins is granted once no other task holds a
\* guard; but for the sweep, every write guard of the legacy Logins lives
\* for one statement
LegacyWriteFree(task) == FailedLoginsReaders \ {task} = {} /\ ~LegacySweeping

\* RwLock::read on failed_logins is granted once no task holds the write
\* guard.  std leaves the priority between readers and writers to the
\* platform: a read() that comes while another thread is parked in write()
\* (behind a read guard, its own included) is granted at once, or later
\* when the lock keeps it behind the writer
LegacyReadFree == ~LegacySweeping

\* RwLock<HashMap>: a panic under the write guard has poisoned failed_logins,
\* and the unwrap() of every later read() and write() panics
FailedLoginsPoisoned ==
    \E t \in DOMAIN req : "poisoned" \in DOMAIN req[t] /\ req[t].poisoned

\* no guard of failed_logins is held in rq
FailedLoginsFree(rq) ==
    /\ \A t \in Tasks : ~("reader" \in DOMAIN rq[t] /\ rq[t].reader)
    /\ \A t \in DOMAIN rq : rq[t].pc # "lx_visit"

\* the drop of the guard that leaves failed_logins free takes the mark of the
\* writers off the lock and wakes a sleeping writer; the writers that sleep
\* on are woken by the next drop or by the system, so each of them is back
\* in its write(), where it takes the lock or parks again
FailedLoginsAfterDrop(rq) ==
    IF ~FailedLoginsFree(rq) THEN rq
    ELSE [t \in DOMAIN rq |->
            IF rq[t].pc = "lx_parked" THEN [rq[t] EXCEPT !.pc = "lx_woken"]
            ELSE IF "parked" \in DOMAIN rq[t] /\ rq[t].parked
            THEN [rq[t] EXCEPT !.parked = FALSE]
            ELSE rq[t]]

\* Logins::new's cleanup_delay
cleanup_delay == cfg.cleanup_delay

\* try_login_password returns result and drops the guards it holds
TryLoginPasswordReturn(task, result) ==
    /\ req' = FailedLoginsAfterDrop(
                  [req EXCEPT ![task] = LegacyReturned(req[task], result)])
    /\ ret' = Call("try_login_password", req[task].username, result, None)

\* try_login_password calls write() on failed_logins while `reader` is alive
TryLoginPasswordStuck(task) ==
    /\ \E stuck \in LegacyStuck(req[task]) :
          req' = FailedLoginsAfterDrop([req EXCEPT ![task] = stuck])
    /\ UNCHANGED <<failed_logins, ret>>

\* the unwrap() of a read() or write() on the poisoned failed_logins panics
TryLoginPasswordPoisoned(task) ==
    /\ req' = FailedLoginsAfterDrop([req EXCEPT ![task] = LegacyPanicked(req[task])])
    /\ UNCHANGED <<failed_logins, ret>>

\* the first part of try_login_password, under the read guard of line 368:
\* the caller's failure record is tested; the guard is dropped where there
\* is no record, on the LockedOut return and before the removal of a record
\* at the threshold (line 375), and nowhere else
LockoutTest(task, username, password) ==
    LET r == LegacyLogin("lp_cred", username, password, FALSE)
    IN  IF username \notin DOMAIN failed_logins
        THEN req' = [req EXCEPT ![task] = r] /\ UNCHANGED ret
        ELSE LET fail == failed_logins[username]
             IN  IF fail.running_count >= max_fails
                 THEN IF now - fail.time <= lockout_time
                      THEN /\ req' = [req EXCEPT ![task] = LegacyReturned(r, "LockedOut")]
                           /\ ret' = Call("try_login_password", username, "LockedOut", None)
                      ELSE /\ req' = [req EXCEPT ![task] = [r EXCEPT !.pc = "lp_remove"]]
                           /\ UNCHANGED ret
                 ELSE IF now - fail.time > lockout_time
                 THEN /\ req' = [req EXCEPT ![task] =
                                    [r EXCEPT !.pc = "lp_remove", !.reader = TRUE]]
                      /\ UNCHANGED ret
                 ELSE /\ req' = [req EXCEPT ![task] = [r EXCEPT !.reader = TRUE]]
                      /\ UNCHANGED ret

\* try_login_password is called: the read guard of line 368 is granted and
\* the record is tested
TryLoginPasswordCall(task, username, password) ==
    /\ req[task].pc \in {"idle", "returned"}
    /\ LegacyReadFree
    /\ IF FailedLoginsPoisoned
       THEN /\ req' = [req EXCEPT ![task] =
                          LegacyLogin("panicked", username, password, FALSE)]
            /\ UNCHANGED ret
       ELSE LockoutTest(task, username, password)
    /\ UNCHANGED <<now, cfg, loginsVars, sessionsVars, credentials>>
    /\ UNCHANGED legacyVars

\* the write() that removes the record of the user, whichever it is by now:
\* line 376, after drop(reader), or line 380, with `reader` alive
LockoutRemove(task) ==
    /\ req[task].pc = "lp_remove"
    /\ IF req[task].reader
       THEN TryLoginPasswordStuck(task)
       ELSE /\ ~req[task].parked
            /\ LegacyWriteFree(task)
            /\ IF FailedLoginsPoisoned
               THEN TryLoginPasswordPoisoned(task)
               ELSE /\ failed_logins' = MapRemove(failed_logins, req[task].username)
                    /\ req' = FailedLoginsAfterDrop([req EXCEPT ![task].pc = "lp_cred"])
                    /\ UNCHANGED ret
    /\ UNCHANGED <<now, cfg, tmp_reserved_names, logins_last_cleanup, reservation,
                   fail_streak, sessionsVars, credentials>>
    /\ UNCHANGED legacyVars

\* a write() of try_login_password (lines 376, 391, 396) that finds a guard
\* of another task on failed_logins marks the lock as awaited by a writer
\* and puts the thread to sleep
TryLoginPasswordPark(task) ==
    /\ req[task].pc \in {"lp_remove", "lp_clear", "lp_wrong"}
    /\ ~req[task].reader
    /\ ~req[task].parked
    /\ ~LegacyWriteFree(task)
    /\ req' = [req EXCEPT ![task].parked = TRUE]
    /\ UNCHANGED <<now, cfg, ret, loginsVars, sessionsVars, credentials>>
    /\ UNCHANGED legacyVars

\* lines 386-388: the read guard of user_cred_map, the match on the user's
\* credential and verify_encoded; the guard lives on while the arm of a
\* password user runs
TryLoginPasswordMatch(task) ==
    /\ req[task].pc = "lp_cred"
    /\ LET r == req[task]
           username == r.username
       IN  IF username \notin DOMAIN credentials
           THEN TryLoginPasswordReturn(task, "NonexistentUser")
           ELSE IF "key" \in DOMAIN credentials[username]
           THEN TryLoginPasswordReturn(task, "UnexpectedCredentials")
           ELSE /\ req' = [req EXCEPT ![task] =
                              [r EXCEPT !.cred_guard = TRUE,
                                        !.pc = IF verify_raw(r.password,
                                                      credentials[username].salt,
                                                      credentials[username].hash)
                                               THEN "lp_right" ELSE "lp_wrong"]]
                /\ UNCHANGED ret
    /\ UNCHANGED <<now, cfg, failed_logins, tmp_reserved_names, logins_last_cleanup,
                   reservation, fail_streak, sessionsVars, credentials>>
    /\ UNCHANGED legacyVars

\* line 390: contains_key under a read guard of failed_logins that lives for
\* the condition
TryLoginPasswordContains(task) ==
    /\ req[task].pc = "lp_right"
    /\ LegacyReadFree
    /\ IF FailedLoginsPoisoned
       THEN TryLoginPasswordPoisoned(task)
       ELSE /\ IF req[task].username \in DOMAIN failed_logins
               THEN req' = [req EXCEPT ![task].pc = "lp_clear"] /\ UNCHANGED ret
               ELSE TryLoginPasswordReturn(task, "Ok")
            /\ UNCHANGED failed_logins
    /\ UNCHANGED <<now, cfg, tmp_reserved_names, logins_last_cleanup, reservation,
                   fail_streak, sessionsVars, credentials>>
    /\ UNCHANGED legacyVars

\* line 391: the write guard is taken and the record of the user is removed
TryLoginPasswordClear(task) ==
    /\ req[task].pc = "lp_clear"
    /\ IF req[task].reader
       THEN TryLoginPasswordStuck(task)
       ELSE /\ ~req[task].parked
            /\ LegacyWriteFree(task)
            /\ IF FailedLoginsPoisoned
               THEN TryLoginPasswordPoisoned(task)
               ELSE /\ failed_logins' = MapRemove(failed_logins, req[task].username)
                    /\ TryLoginPasswordReturn(task, "Ok")
    /\ UNCHANGED <<now, cfg, tmp_reserved_names, logins_last_cleanup, reservation,
                   fail_streak, sessionsVars, credentials>>
    /\ UNCHANGED legacyVars

\* lines 398-409 under the write guard: the failure is counted, with no test
\* of the count against max_fails.  `running_count += 1` on a count of
\* u8::MAX wraps to 0 in a build without overflow checks and panics in a
\* build with them, before the count and the time are written; the panic
\* drops the write guard and poisons failed_logins
CountFailure(task) ==
    LET username == req[task].username
    IN  IF username \notin DOMAIN failed_logins
        THEN /\ failed_logins' = MapInsert(failed_logins, username,
                                           FailedLoginAttempt(1, now))
             /\ TryLoginPasswordReturn(task, "BadCredentialChallenge")
        ELSE \/ /\ failed_logins' =
                      MapInsert(failed_logins, username,
                          FailedLoginAttempt(
                              U8Inc(failed_logins[username].running_count), now))
                /\ TryLoginPasswordReturn(task, "BadCredentialChallenge")
             \/ /\ failed_logins[username].running_count = U8_MAX
                /\ req' = FailedLoginsAfterDrop(
                              [req EXCEPT ![task] =
                                  [LegacyPanicked(req[task]) EXCEPT !.poisoned = TRUE]])
                /\ UNCHANGED <<failed_logins, ret>>

\* lines 396-411: the write guard is taken and the failure of a wrong
\* password is counted
TryLoginPasswordCount(task) ==
    /\ req[task].pc = "lp_wrong"
    /\ IF req[task].reader
       THEN TryLoginPasswordStuck(task)
       ELSE /\ ~req[task].parked
            /\ LegacyWriteFree(task)
            /\ IF FailedLoginsPoisoned
               THEN TryLoginPasswordPoisoned(task)
               ELSE CountFailure(task)
    /\ UNCHANGED <<now, cfg, tmp_reserved_names, logins_last_cleanup, reservation,
                   fail_streak, sessionsVars, credentials>>
    /\ UNCHANGED legacyVars

\* the cleanup task is in the write() of line 313: its sleep(cleanup_delay)
\* is over, or it has been woken in the write()
LegacyPruneDue ==
    \/ req[CleanupTask].pc = "idle" /\ now - logins_last_cleanup >= cleanup_delay
    \/ req[CleanupTask].pc = "lx_woken"

\* the cleanup task: sleep(cleanup_delay), then the legacy prune_expired,
\* lines 313-314: the write guard of failed_logins is granted and the map is
\* replaced by an empty one; the loop over an empty old map ends at once.
\* On a poisoned lock the unwrap() panics and the task ends.
\* The time at which the task went to sleep is held in logins_last_cleanup
legacy_prune_expired ==
    /\ LegacyPruneDue
    /\ LegacyWriteFree(CleanupTask)
    /\ IF FailedLoginsPoisoned
       THEN /\ req' = FailedLoginsAfterDrop(
                          [req EXCEPT ![CleanupTask] = [Idle EXCEPT !.pc = "panicked"]])
            /\ UNCHANGED <<failed_logins, logins_last_cleanup, ret>>
       ELSE /\ failed_logins' = << >>
            /\ IF failed_logins = << >>
               THEN /\ logins_last_cleanup' = now
                    /\ ret' = Call("prune_expired", "", None, {})
                    /\ req' = FailedLoginsAfterDrop([req EXCEPT ![CleanupTask] = Idle])
               ELSE /\ req' = [req EXCEPT ![CleanupTask] =
                                 [Idle EXCEPT !.pc = "lx_visit",
                                              !.old = Entries(failed_logins)]]
                    /\ UNCHANGED <<logins_last_cleanup, ret>>
    /\ UNCHANGED <<now, cfg, tmp_reserved_names, reservation, fail_streak,
                   sessionsVars, credentials>>
    /\ UNCHANGED legacyVars

\* the write() of line 313 finds a read guard on failed_logins: the cleanup
\* task marks the lock as awaited by a writer and sleeps
legacy_prune_park ==
    /\ LegacyPruneDue
    /\ ~LegacyWriteFree(CleanupTask)
    /\ req' = [req EXCEPT ![CleanupTask].pc = "lx_parked"]
    /\ UNCHANGED <<now, cfg, ret, loginsVars, sessionsVars, credentials>>
    /\ UNCHANGED legacyVars

\* lines 315-319: one turn of the loop, on the entry the HashMap yields next;
\* after the last one the guard is dropped and the task goes to sleep
legacy_prune_visit ==
    /\ req[CleanupTask].pc = "lx_visit"
    /\ \E e \in req[CleanupTask].old :
          LET r == req[CleanupTask]
              writer == FailedLoginsAfterVisit(failed_logins, e)
              took == IF e.username \in DOMAIN writer THEN r.took
                      ELSE r.took \cup {e.username}
          IN  /\ failed_logins' = writer
              /\ IF r.old = {e}
                 THEN /\ req' = FailedLoginsAfterDrop([req EXCEPT ![CleanupTask] = Idle])
                      /\ logins_last_cleanup' = now
                      /\ ret' = Call("prune_expired", "", None, took)
                 ELSE /\ req' = [req EXCEPT ![CleanupTask] =
                                    [r EXCEPT !.old = @ \ {e}, !.took = took]]
                      /\ UNCHANGED <<logins_last_cleanup, ret>>
    /\ UNCHANGED <<now, cfg, tmp_reserved_names, reservation, fail_streak,
                   sessionsVars, credentials>>
    /\ UNCHANGED legacyVars

\* ------------------------------------- legacy Sessions (three maps)
\* a call on the legacy Sessions in flight; old_sessions: the map taken out
\* by prune_expired
LegacySessionsCall(pc, username, id, old_sessions) ==
    [pc |-> pc, username |-> username, id |-> id, old_sessions |-> old_sessions,
     response |-> <<>>]
LegacySessionsReturn(r, response) ==
    [pc |-> "returned", username |-> r.username, id |-> r.id, old_sessions |-> << >>,
     response |-> response]
LegacySessionData(creation_time, owning_user) ==
    [creation_time |-> creation_time, owning_user |-> owning_user]

\* the write guards prune_expired holds from one lock() to the end of the call
SessionsWriteLockFree ==
    \A t \in Tasks : req[t].pc \notin {"lpr_sessions", "lpr_user", "lpr_visit"}
UserSessionWriteLockFree == \A t \in Tasks : req[t].pc \notin {"lpr_user", "lpr_visit"}
SessionUserWriteLockFree == \A t \in Tasks : req[t].pc # "lpr_visit"

LegacyUnchanged ==
    UNCHANGED <<now, cfg, ret, loginsVars, sessionsVars, credentials, used_challenges,
                free_pipes>>

\* create_session: the read of user_session_map and the early return
LegacyCreateLookup(task, username) ==
    /\ req[task].pc \in {"idle", "returned"}
    /\ UserSessionWriteLockFree
    /\ LET r == LegacySessionsCall("lcs_sessions", username, "", << >>)
       IN  req' = [req EXCEPT ![task] =
                      IF username \in DOMAIN legacy_user_session_map
                      THEN LegacySessionsReturn(
                               [r EXCEPT !.id = legacy_user_session_map[username]],
                               <<"create_session", legacy_user_session_map[username]>>)
                      ELSE r]
    /\ UNCHANGED <<legacy_user_session_map, session_user_map, sessions>>
    /\ LegacyUnchanged

\* create_session: an id that is no key of sessions goes into sessions
LegacyCreateInsertSession(task) ==
    /\ req[task].pc = "lcs_sessions"
    /\ SessionsWriteLockFree
    /\ \E session_id \in Tokens \ DOMAIN sessions :
          /\ sessions' = MapInsert(sessions, session_id,
                                   LegacySessionData(now, req[task].username))
          /\ req' = [req EXCEPT ![task].pc = "lcs_user", ![task].id = session_id]
    /\ UNCHANGED <<legacy_user_session_map, session_user_map>>
    /\ LegacyUnchanged

\* create_session: user_session_map.insert
LegacyCreateInsertUser(task) ==
    /\ req[task].pc = "lcs_user"
    /\ UserSessionWriteLockFree
    /\ legacy_user_session_map' =
          MapInsert(MapRemove(legacy_user_session_map, req[task].username),
                    req[task].username, req[task].id)
    /\ req' = [req EXCEPT ![task].pc = "lcs_owner"]
    /\ UNCHANGED <<session_user_map, sessions>>
    /\ LegacyUnchanged

\* create_session: session_user_map.insert and the return of the id
LegacyCreateInsertOwner(task) ==
    /\ req[task].pc = "lcs_owner"
    /\ SessionUserWriteLockFree
    /\ session_user_map' =
          MapInsert(MapRemove(session_user_map, req[task].id),
                    req[task].id, req[task].username)
    /\ req' = [req EXCEPT ![task] =
                  LegacySessionsReturn(req[task], <<"create_session", req[task].id>>)]
    /\ UNCHANGED <<legacy_user_session_map, sessions>>
    /\ LegacyUnchanged

\* prune_expired of the cleanup task: sessions.write() and the replace
LegacyPruneLockSessions(task) ==
    /\ req[task].pc \in {"idle", "returned"}
    /\ SessionsWriteLockFree
    /\ sessions' = << >>
    /\ req' = [req EXCEPT ![task] = LegacySessionsCall("lpr_sessions", "", "", sessions)]
    /\ UNCHANGED <<legacy_user_session_map, session_user_map>>
    /\ LegacyUnchanged

\* prune_expired: user_session_map.write()
LegacyPruneLockUserMap(task) ==
    /\ req[task].pc = "lpr_sessions"
    /\ UserSessionWriteLockFree
    /\ req' = [req EXCEPT ![task].pc = "lpr_user"]
    /\ UNCHANGED <<legacy_user_session_map, session_user_map, sessions>>
    /\ LegacyUnchanged

\* prune_expired: session_user_map.write(); the loop over an empty
\* old_sessions ends at once and the three guards are released
LegacyPruneSweep(task) ==
    /\ req[task].pc = "lpr_user"
    /\ req' = [req EXCEPT ![task] =
                  IF DOMAIN req[task].old_sessions = {}
                  THEN LegacySessionsReturn(req[task], <<"prune_expired">>)
                  ELSE [req[task] EXCEPT !.pc = "lpr_visit"]]
    /\ UNCHANGED <<legacy_user_session_map, session_user_map, sessions>>
    /\ LegacyUnchanged

\* prune_expired, lines 560-567: one turn of the loop, on the entry the
\* HashMap yields next, whose elapsed() reads the clock; after the last one
\* the three guards are released
LegacyPruneVisit(task) ==
    /\ req[task].pc = "lpr_visit"
    /\ LET old_sessions == req[task].old_sessions
       IN  \E session_id \in DOMAIN old_sessions :
             LET session_data == old_sessions[session_id]
                 rest == MapRemove(old_sessions, session_id)
             IN  /\ IF now - session_data.creation_time > max_session_duration
                    THEN /\ legacy_user_session_map' =
                               MapRemove(legacy_user_session_map,
                                         session_data.owning_user)
                         /\ session_user_map' = MapRemove(session_user_map, session_id)
                         /\ sessions' = sessions
                    ELSE /\ sessions' = MapInsert(sessions, session_id, session_data)
                         /\ UNCHANGED <<legacy_user_session_map, session_user_map>>
                 /\ req' = [req EXCEPT ![task] =
                               IF DOMAIN rest = {}
                               THEN LegacySessionsReturn(req[task], <<"prune_expired">>)
                               ELSE [req[task] EXCEPT !.old_sessions = rest]]
    /\ LegacyUnchanged

\* the clock of the legacy specifications
LegacyTick ==
    /\ now < MaxTime
    /\ now' = now + 1
    /\ UNCHANGED <<cfg, ret, loginsVars, sessionsVars, handlerVars, legacyVars>>

\* ------------------------------------- legacy Logins::try_login_key
\* a challenge is a string: its start and the rest of it
key_challenge_prefix == "login:"
Challenges == {<<"login:", "n1">>, <<"login:", "n2">>, <<"other:", "n1">>}
starts_with(challenge, prefix) == challenge[1] = prefix

\* ed25519: the signature a key makes over a message, and verify_strict
Keys == {"key_alice", "key_bob"}
Sign(key, message) == <<"sig", key, message>>
Signatures == {Sign(k, c) : k \in Keys, c \in Challenges}
verify_strict(key, message, signature) == signature = Sign(key, message)

\* the user_cred_map a server is started with: key users only, or a password
\* user and a key user
KeyRegistered == [u \in Usernames |-> [key |-> IF u = "alice" THEN "key_alice"
                                                   ELSE "key_bob"]]

\* a try_login_key that does not record the challenge it accepts
UsedChallengesNotRecorded(used, challenge) == used

\* used_challenges.insert(challenge) on the Ok path
UsedChallengesAfterOk(used, challenge) == used \cup {challenge}

LegacyKeyLogin(pc, username, challenge, signature) ==
    [pc |-> pc, username |-> username, challenge |-> challenge,
     signature |-> signature, response |-> <<>>]
LegacyKeyReturned(r, result) ==
    [pc |-> "returned", username |-> r.username, challenge |-> r.challenge,
     signature |-> r.signature, response |-> <<result>>]

\* try_login_key up to used_challenges.lock(): the match on the credential
\* and the prefix test
TryLoginKeyCall(task, username, challenge, signature) ==
    /\ req[task].pc \in {"idle", "returned"}
    /\ LET r == LegacyKeyLogin("lk_lock", username, challenge, signature)
       IN  req' = [req EXCEPT ![task] =
                      IF username \notin DOMAIN credentials
                      THEN LegacyKeyReturned(r, "NonexistentUser")
                      ELSE IF "key" \notin DOMAIN credentials[username]
                      THEN LegacyKeyReturned(r, "UnexpectedCredentials")
                      ELSE IF ~starts_with(challenge, key_challenge_prefix)
                      THEN LegacyKeyReturned(r, "BadCredentialChallenge")
                      ELSE r]
    /\ UNCHANGED <<now, cfg, ret, loginsVars, sessionsVars, credentials, legacyVars>>

\* try_login_key under the used_challenges mutex: the replay test, the
\* signature test and the insert
TryLoginKeyLocked(task) ==
    /\ req[task].pc = "lk_lock"
    /\ LET r == req[task]
           key == credentials[r.username].key
       IN  IF r.challenge \in used_challenges
           THEN /\ req' = [req EXCEPT ![task] = LegacyKeyReturned(r, "UsedChallenge")]
                /\ UNCHANGED used_challenges
           ELSE IF verify_strict(key, r.challenge, r.signature)
           THEN /\ used_challenges' = UsedChallengesAfterOk(used_challenges, r.challenge)
                /\ req' = [req EXCEPT ![task] = LegacyKeyReturned(r, "Ok")]
           ELSE /\ req' = [req EXCEPT ![task] =
                              LegacyKeyReturned(r, "BadCredentialChallenge")]
                /\ UNCHANGED used_challenges
    /\ UNCHANGED <<now, cfg, ret, loginsVars, sessionsVars, credentials,
                   legacy_user_session_map, session_user_map, sessions, free_pipes>>

\* ------------------------------------- legacy request handlers and Pipes
\* the connections to the database that are open at one time: each of the
\* two tasks owns at most one, and a pipe is new only when the free list
\* was empty at the pop
PipeIds == {"p1", "p2"}

\* the handlers that check the session of a request and talk to the
\* database over a pipe: put_resource and post_data (methods/setters.rs),
\* directory_tools and borrow_resource (methods/getters.rs), make_user and
\* delete_user (methods/auth.rs)
PipeHandlers == {"put_resource", "post_data", "directory_tools", "borrow_resource",
                 "make_user", "delete_user"}

\* the values of the Session-ID cookie of a request: none, one that
\* SessionID::try_from rejects, and well-formed ids
Cookies == {None, Some("malformed")} \cup {Some(id) : id \in Tokens}

\* the headers of a message of the database that the handlers tell apart
GatewayResponseHeaders == {"Ok", "InternalError", "NotFound", "BadResource", "BadPath",
                           "BadRequest", "IsDirectoryError"}

\* a message of the database.  body: "none" for a message of body_size 0,
\* else whether the handler can parse it (the mime type of post_data and
\* borrow_resource, the path list of directory_tools); a message whose body
\* is awaited has the body ""
Message(header, body) == [header |-> header, body |-> body]
NoMessage == Message("", "")

\* the bodies a message can carry
Bodies == {"well_formed", "garbled"}

\* the answers of the database as the first read_exact meets them: every
\* header without a body, and with a body to await Ok (the handlers read
\* its body) and NotFound (no handler reads its body)
DbAnswers == {Message(h, "none") : h \in GatewayResponseHeaders}
               \cup {Message(h, "") : h \in {"Ok", "NotFound"}}

\* what a read_exact of read_socket! meets: the bytes (of a header that
\* Message::new_response accepts or of one that it rejects), or a
\* connection that is closed or fails
ReadOutcomes == {"message", "closed", "unrecognized_header"}

\* the requests a client makes: the handler, the action parameter (read by
\* directory_tools) and whether anyone may read the path (read by
\* borrow_resource)
PipeRequests == {<<h, "list", TRUE>> : h \in PipeHandlers}
                    \cup {<<"directory_tools", "tree", TRUE>>,
                          <<"borrow_resource", "list", FALSE>>}

Range(s) == {s[i] : i \in DOMAIN s}

\* make_response!(BUG), RESOURCE_NOT_FOUND and DB_CONNECTION responses
BugResponse == <<"NotFound", "BUG">>
ResourceNotFound == <<"NotFound", "RESOURCE_NOT_FOUND">>
DbConnection == <<"ServerError", "DB_CONNECTION">>

\* a request of a pipe handler in flight.  id: the session id of its
\* cookie; username and password: the arguments of an add_user in flight;
\* username and password_hash: the promise it holds (make_user: the
\* UserCreationPromise of the new user, delete_user: the UserDeletionPromise
\* of the session owner); socket: the pipe it was handed; message: what
\* read_socket! has read
Handler(pc, handler, id) ==
    [pc |-> pc, handler |-> handler, id |-> id, username |-> "", password |-> "",
     password_hash |-> None, socket |-> {}, message |-> NoMessage, response |-> <<>>]
HandlerReturn(r, response) ==
    [pc |-> "returned", handler |-> "", id |-> "", username |-> "", password |-> "",
     password_hash |-> None, socket |-> r.socket, message |-> NoMessage,
     response |-> response]

\* a return (or a panic that unwinds) out of a handler: the
\* UserCreationPromise of make_user is dropped on the way, which takes the
\* mutex of tmp_reserved_names
HandlerLeave(r, response) ==
    IF r.handler = "make_user" /\ r.password_hash # None
    THEN [r EXCEPT !.pc = "mu_drop", !.message = NoMessage, !.response = response]
    ELSE HandlerReturn(r, response)

\* the pcs at which a request owns a pipe
PipeOwnerPcs == {"pp_write", "pp_read", "pp_body", "pp_return"}

\* the pipes some request owns
TakenPipes == UNION {req[t].socket : t \in {x \in Tasks : req[x].pc \in PipeOwnerPcs}}

\* a take_pipe that reads the last free pipe and leaves it in the list
FreePipesAfterPeek(free) == free

\* Vec::pop on a list that is not empty
FreePipesAfterPop(free) == SubSeq(free, 1, Len(free) - 1)

\* SpecialUsers::can_user_create_user
can_user_create_user(username) ==
    /\ username \in DOMAIN cfg.privileged
    /\ "CreateUser" \in cfg.privileged[username]

HandlerUnchanged ==
    UNCHANGED <<now, cfg, ret, failed_logins, logins_last_cleanup, fail_streak,
                sessionsVars, legacy_user_session_map, session_user_map, sessions,
                used_challenges>>

\* the start of a handler up to the end of check_session_id!: the action
\* test of directory_tools, the cookie, SessionID::try_from and
\* is_valid_session under the read guard of sessions; without a cookie
\* directory_tools goes on anonymously, borrow_resource asks
\* can_anonymous_read_here (can_read) and the others answer missing_session!
CheckSessionId(task, handler, action, cookie, can_read) ==
    /\ req[task].pc \in {"idle", "returned"}
    /\ LET r == Handler("ls_owner", handler, "")
       IN  IF handler = "directory_tools" /\ action # "list"
           THEN req' = [req EXCEPT ![task] =
                           HandlerReturn(r, <<"BadRequest", "Unrecognized action">>)]
           ELSE IF cookie = None
           THEN req' = [req EXCEPT ![task] =
                           IF \/ handler = "directory_tools"
                              \/ handler = "borrow_resource" /\ can_read
                           THEN [r EXCEPT !.pc = "pp_pop"]
                           ELSE IF handler = "borrow_resource"
                           THEN HandlerReturn(r, ResourceNotFound)
                           ELSE HandlerReturn(r,
                                    <<"BadRequest", "Missing Session-ID cookie">>)]
           ELSE LET id == CHOOSE x \in cookie : TRUE
                IN  IF id = "malformed"
                    THEN req' = [req EXCEPT ![task] =
                                    HandlerReturn(r,
                                        <<"BadRequest", "The Session-ID is malformed">>)]
                    ELSE /\ SessionsWriteLockFree
                         /\ req' = [req EXCEPT ![task] =
                                       IF id \in DOMAIN sessions THEN [r EXCEPT !.id = id]
                                       ELSE HandlerReturn(r,
                                                <<"Unauthorized",
                                                  "The Session-ID is invalid or expired">>)]
    /\ UNCHANGED <<credentials, tmp_reserved_names, reservation, free_pipes>>
    /\ HandlerUnchanged

\* the handler after check_session_id! returned Some: get_session_owner
\* under the read guard of session_user_map, and the test of the owner.
\* permitted: the answer of can_user_write_here (put_resource, post_data) or
\* can_user_read_here (borrow_resource) for the path of the request
HandlerGetSessionOwner(task, permitted) ==
    /\ req[task].pc = "ls_owner"
    /\ SessionUserWriteLockFree
    /\ LET r == req[task]
           owner == session_user_map[r.id]
       IN  req' = [req EXCEPT ![task] =
                      IF r.id \notin DOMAIN session_user_map
                      THEN HandlerReturn(r, BugResponse)
                      ELSE IF r.handler = "make_user"
                      THEN IF can_user_create_user(owner)
                           THEN [r EXCEPT !.pc = "mu_add"]
                           ELSE HandlerReturn(r,
                                    <<"Unauthorized",
                                      "You are not authorized to create users">>)
                      ELSE IF r.handler = "delete_user"
                      THEN [r EXCEPT !.pc = "du_delete", !.username = owner]
                      ELSE IF r.handler = "directory_tools" \/ permitted
                      THEN [r EXCEPT !.pc = "pp_pop"]
                      ELSE HandlerReturn(r, ResourceNotFound)]
    /\ UNCHANGED <<credentials, tmp_reserved_names, reservation, free_pipes>>
    /\ HandlerUnchanged

\* make_user: logins.add_user(username, password) up to the release of the
\* mutex of tmp_reserved_names (the tests of the username and the password,
\* tmp_reserved_names.lock().unwrap().contains(..)) and the match on an Err
MakeUserAddUser(task, username, password) ==
    /\ req[task].pc = "mu_add"
    /\ LET r == req[task]
       IN  req' = [req EXCEPT ![task] =
                      IF username \in BadUsernames
                      THEN HandlerReturn(r,
                               <<"BadRequest",
                                 "Username is not alphanumeric or too short or too long">>)
                      ELSE IF password \in BadPasswords
                      THEN HandlerReturn(r,
                               <<"BadRequest", "Password is not strong enough">>)
                      ELSE IF username \in tmp_reserved_names
                      THEN HandlerReturn(r, <<"BadRequest", "Username already in use">>)
                      ELSE [r EXCEPT !.pc = "mu_read", !.username = username,
                                     !.password = password]]
    /\ UNCHANGED <<credentials, tmp_reserved_names, reservation, free_pipes>>
    /\ HandlerUnchanged

\* make_user: the rest of logins.add_user, from
\* user_cred_map.read().unwrap().contains_key(..) to its return, and the
\* match on its result; hashed: hash_encoded returned Ok
MakeUserReadCred(task, salt, hashed) ==
    /\ req[task].pc = "mu_read"
    /\ LET r == req[task]
       IN  IF r.username \in DOMAIN credentials
           THEN /\ req' = [req EXCEPT ![task] =
                              HandlerReturn(r, <<"BadRequest", "Username already in use">>)]
                /\ UNCHANGED reservation
           ELSE IF ~hashed
           THEN /\ req' = [req EXCEPT ![task] = HandlerReturn(r, BugResponse)]
                /\ UNCHANGED reservation
           ELSE /\ req' = [req EXCEPT ![task] =
                              [r EXCEPT !.pc = "pp_pop", !.password = "",
                                        !.password_hash =
                                            Some([salt |-> salt,
                                                  hash |-> hash_raw(r.password, salt)])]]
                /\ reservation' = [reservation EXCEPT ![task] = Some(r.username)]
    /\ UNCHANGED <<credentials, tmp_reserved_names, free_pipes>>
    /\ HandlerUnchanged

\* delete_user: logins.delete_user(owner) and the match on its result
HandlerDeleteUser(task) ==
    /\ req[task].pc = "du_delete"
    /\ req' = [req EXCEPT ![task] =
                  IF req[task].username \in DOMAIN credentials
                  THEN [req[task] EXCEPT !.pc = "pp_pop"]
                  ELSE HandlerReturn(req[task], <<"BadRequest", "User does not exist">>)]
    /\ UNCHANGED <<credentials, tmp_reserved_names, reservation, free_pipes>>
    /\ HandlerUnchanged

\* take_pipe, lines 607-611: the pop under the mutex of free_pipes; with an
\* empty list the mutex is released and the request goes on to connect,
\* holding no pipe
TakePipePop(task) ==
    /\ req[task].pc = "pp_pop"
    /\ IF free_pipes # << >>
       THEN /\ req' = [req EXCEPT ![task].pc = "pp_write",
                                  ![task].socket = {free_pipes[Len(free_pipes)]}]
            /\ free_pipes' = FreePipesAfterPop(free_pipes)
       ELSE /\ req' = [req EXCEPT ![task].pc = "pp_connect"]
            /\ UNCHANGED free_pipes
    /\ UNCHANGED <<credentials, tmp_reserved_names, reservation>>
    /\ HandlerUnchanged

\* take_pipe, lines 613-617, and the match of take_pipe!: connect_local or
\* the awaited connect_remote opens a new pipe or fails
TakePipeConnect(task, connected) ==
    /\ req[task].pc = "pp_connect"
    /\ IF connected
       THEN \E p \in PipeIds \ (TakenPipes \cup Range(free_pipes)) :
               req' = [req EXCEPT ![task].pc = "pp_write", ![task].socket = {p}]
       ELSE req' = [req EXCEPT ![task] = HandlerLeave(req[task], DbConnection)]
    /\ UNCHANGED <<credentials, tmp_reserved_names, reservation, free_pipes>>
    /\ HandlerUnchanged

\* write_socket!
WriteSocket(task, written) ==
    /\ req[task].pc = "pp_write"
    /\ req' = [req EXCEPT ![task] =
                  IF written THEN [req[task] EXCEPT !.pc = "pp_read"]
                  ELSE HandlerLeave(req[task], DbConnection)]
    /\ UNCHANGED <<credentials, tmp_reserved_names, reservation, free_pipes>>
    /\ HandlerUnchanged

\* read_socket! up to its second await: the read_exact of the header and
\* the size; with a body_size of 0 Message::new_response_header makes the
\* message, else the body is awaited and the header byte is kept as read
ReadSocketHeader(task, outcome, message) ==
    /\ req[task].pc = "pp_read"
    /\ req' = [req EXCEPT ![task] =
                  IF outcome = "closed" THEN HandlerLeave(req[task], DbConnection)
                  ELSE IF message.body # "none"
                  THEN [req[task] EXCEPT
                           !.pc = "pp_body",
                           !.message = Message(IF outcome = "unrecognized_header"
                                               THEN "unrecognized"
                                               ELSE message.header, "")]
                  ELSE IF outcome = "unrecognized_header"
                  THEN HandlerLeave(req[task], <<"ServerError", "BUG">>)
                  ELSE [req[task] EXCEPT !.pc = "pp_return", !.message = message]]
    /\ UNCHANGED <<credentials, tmp_reserved_names, reservation, free_pipes>>
    /\ HandlerUnchanged

\* read_socket! from its second await: the read_exact of the body, then
\* Message::new_response on the header byte read before; read: the
\* connection delivered the body
ReadSocketBody(task, read, body) ==
    /\ req[task].pc = "pp_body"
    /\ req' = [req EXCEPT ![task] =
                  IF ~read THEN HandlerLeave(req[task], DbConnection)
                  ELSE IF req[task].message.header = "unrecognized"
                  THEN HandlerLeave(req[task], <<"ServerError", "BUG">>)
                  ELSE [req[task] EXCEPT !.pc = "pp_return",
                                         !.message = Message(req[task].message.header,
                                                             body)]]
    /\ UNCHANGED <<credentials, tmp_reserved_names, reservation, free_pipes>>
    /\ HandlerUnchanged

\* the match on the header of the message after return_pipe, where it ends
\* the handler: unreachable!() and todo!() panic.  Without a body the
\* buffer is empty: there is no mime type to read, and the list of paths is
\* empty
HandlerResponse(handler, message) ==
    LET header == message.header
        parsed == IF handler = "directory_tools" THEN message.body # "garbled"
                  ELSE message.body = "well_formed"
    IN  IF handler = "put_resource"
        THEN IF header = "Ok" THEN <<"Ok", "Resource put successfully">>
             ELSE IF header = "InternalError" THEN BugResponse
             ELSE IF header = "NotFound" THEN ResourceNotFound
             ELSE IF header = "BadResource"
             THEN <<"BadRequest", "The given resource is not valid">>
             ELSE <<"panicked", "unreachable">>
        ELSE IF handler \in {"post_data", "borrow_resource"}
        THEN IF header = "Ok"
             THEN IF parsed THEN <<"Ok", "body">> ELSE <<"ServerError", "BUG">>
             ELSE IF header = "InternalError" THEN BugResponse
             ELSE ResourceNotFound
        ELSE IF handler = "directory_tools"
        THEN IF header = "Ok"
             THEN IF parsed THEN <<"Ok", "paths">> ELSE BugResponse
             ELSE IF header \in {"BadPath", "InternalError"} THEN <<"panicked", "todo">>
             ELSE IF header = "IsDirectoryError"
             THEN <<"BadRequest", "The given path is not a directory">>
             ELSE ResourceNotFound
        ELSE IF header = "Ok"
             THEN IF handler = "make_user" THEN <<"Ok", "User created successfully">>
                  ELSE <<"Ok", "User deleted successfully">>
             ELSE IF header \in {"BadPath", "BadRequest"} THEN BugResponse
             ELSE <<"panicked", "unreachable">>

\* return_pipe: the push under the mutex of free_pipes, and the match on the
\* header; on Ok make_user and delete_user go on to promise.finalize()
ReturnPipe(task) ==
    /\ req[task].pc = "pp_return"
    /\ free_pipes' = free_pipes \o <<CHOOSE p \in req[task].socket : TRUE>>
    /\ LET r == req[task]
           moved == [r EXCEPT !.socket = {}, !.message = NoMessage]
       IN  req' = [req EXCEPT ![task] =
                      IF r.handler = "make_user" /\ r.message.header = "Ok"
                      THEN [moved EXCEPT !.pc = "mu_finalize"]
                      ELSE IF r.handler = "delete_user" /\ r.message.header = "Ok"
                      THEN [moved EXCEPT !.pc = "du_finalize"]
                      ELSE HandlerLeave(moved, HandlerResponse(r.handler, r.message))]
    /\ UNCHANGED <<credentials, tmp_reserved_names, reservation>>
    /\ HandlerUnchanged

\* make_user: UserCreationPromise::finalize, the insert under the write
\* guard of user_cred_map
MakeUserFinalize(task) ==
    /\ req[task].pc = "mu_finalize"
    /\ WriteLockFree(UserCredReaders, task)
    /\ credentials' = MapInsert(credentials, req[task].username,
                                CHOOSE h \in req[task].password_hash : TRUE)
    /\ req' = [req EXCEPT ![task].pc = "mu_drop",
                          ![task].response = HandlerResponse("make_user",
                                                 Message("Ok", "well_formed"))]
    /\ UNCHANGED <<tmp_reserved_names, reservation, free_pipes>>
    /\ HandlerUnchanged

\* make_user: Drop for UserCreationPromise under the mutex of
\* tmp_reserved_names, at the end of finalize or where the handler leaves
\* with the promise alive
MakeUserDrop(task) ==
    /\ req[task].pc = "mu_drop"
    /\ tmp_reserved_names' = ReservedAfterDrop(tmp_reserved_names, req[task].username)
    /\ reservation' = [reservation EXCEPT ![task] = None]
    /\ req' = [req EXCEPT ![task] = HandlerReturn(req[task], req[task].response)]
    /\ UNCHANGED <<credentials, free_pipes>>
    /\ HandlerUnchanged

\* delete_user: UserDeletionPromise::finalize, the remove under the write
\* guard of user_cred_map
DeleteUserFinalize(task) ==
    /\ req[task].pc = "du_finalize"
    /\ WriteLockFree(UserCredReaders, task)
    /\ credentials' = MapRemove(credentials, req[task].username)
    /\ req' = [req EXCEPT ![task] =
                  HandlerReturn(req[task],
                      HandlerResponse("delete_user", Message("Ok", "well_formed")))]
    /\ UNCHANGED <<tmp_reserved_names, reservation, free_pipes>>
    /\ HandlerUnchanged

\* the cleanup task of Pipes::new
prune_pipes ==
    /\ free_pipes' = << >>
    /\ UNCHANGED <<req, credentials, tmp_reserved_names, reservation>>
    /\ HandlerUnchanged

\* ---------------------------------------------- clients holding tokens
\* the id a create_session returned, as the client of a task keeps it; born:
\* the time of that create_session
Holding(username, token, born) ==
    [pc |-> "holding", username |-> username, token |-> token, born |-> born]

\* create_session(username) whose id is handed to the client of the task; a
\* client that held the id of an earlier create_session for the username has
\* been superseded by this fresh login
IssueToken(task, username) ==
    /\ WriteLockFree(SessionsWriters, task)
    /\ \E id \in NewSessionIds(user_session_map, username) :
          /\ user_session_map' = SessionsAfterCreate(user_session_map, username, id)
          /\ ret' = Call("create_session", username, Some(id),
                         TokensOf(user_session_map, username))
          /\ req' = [t \in Tasks |->
                        IF t = task THEN Holding(username, id, now)
                        ELSE IF req[t].pc = "holding" /\ req[t].username = username
                        THEN Idle
                        ELSE req[t]]
    /\ renew_calls' = [renew_calls EXCEPT ![username] = 0]
    /\ UNCHANGED <<now, cfg, loginsVars, sessions_last_cleanup, credentials>>
    /\ UNCHANGED legacyVars

\* ------------------------------------------- callers racing on the locks
\* a mark_failed_login call in flight; raced: another call for the same
\* username was in flight when this one was made
MarkFailedCallOf(pc, username, attempt, raced) ==
    [pc |-> pc, username |-> username, attempt |-> attempt, raced |-> raced]

\* mark_failed_login(username) is called and waits for the write guard
MarkFailedCall(task, username) ==
    /\ req[task].pc \in {"idle", "returned"}
    /\ req' = [req EXCEPT ![task] =
                  MarkFailedCallOf("mf_wait", username, None,
                      \E t \in Tasks \ {task} :
                          /\ req[t].pc \in {"mf_wait", "mf_locked", "mf_removed"}
                          /\ req[t].username = username)]
    /\ UNCHANGED <<now, cfg, ret, loginsVars, sessionsVars, credentials>>
    /\ UNCHANGED legacyVars

\* self.failed_logins.write().unwrap()
MarkFailedLock(task) ==
    /\ req[task].pc = "mf_wait"
    /\ WriteLockFree(FailedLoginsWriters, task)
    /\ req' = [req EXCEPT ![task].pc = "mf_locked"]
    /\ UNCHANGED <<now, cfg, ret, loginsVars, sessionsVars, credentials>>
    /\ UNCHANGED legacyVars

\* writer.remove(&username) and the match on what it returned
MarkFailedRemove(task) ==
    /\ req[task].pc = "mf_locked"
    /\ LET username == req[task].username
       IN  /\ failed_logins' = MapRemove(failed_logins, username)
           /\ req' = [req EXCEPT
                         ![task].pc = "mf_removed",
                         ![task].attempt =
                             Some(FailedLoginsAfterFail(failed_logins, username)[username])]
    /\ UNCHANGED <<now, cfg, ret, tmp_reserved_names, logins_last_cleanup,
                   reservation, fail_streak, sessionsVars, credentials>>
    /\ UNCHANGED legacyVars

\* writer.insert(username, attempt); the guard is dropped on return
MarkFailedInsert(task) ==
    /\ req[task].pc = "mf_removed"
    /\ LET username == req[task].username
           attempt == CHOOSE a \in req[task].attempt : TRUE
       IN  /\ failed_logins' = MapInsert(failed_logins, username, attempt)
           /\ fail_streak' = [fail_streak EXCEPT
                                 ![username] = StreakAfterFail(@, attempt.time)]
           /\ ret' = Call("mark_failed_login", username, None, None)
    /\ req' = [req EXCEPT ![task].pc = "returned", ![task].attempt = None]
    /\ UNCHANGED <<now, cfg, tmp_reserved_names, logins_last_cleanup, reservation,
                   sessionsVars, credentials>>
    /\ UNCHANGED legacyVars

\* a task that is not inside a call
AtRest(task) == req[task].pc \in {"idle", "returned"}

\* a renew_session or prune_expired call in flight.  before: the map when
\* the write guard was taken; data: the SessionData remove_by_left handed
\* out; old_sessions: the pairs the sweep loop has yet to visit
SessionsCallOf(pc, username, before, data, old_sessions) ==
    [pc |-> pc, at |-> 0, username |-> username, before |-> before, data |-> data,
     old_sessions |-> old_sessions]

\* a get_session_owner call in flight; raced: the calls that were inside
\* their critical section when this one was made (handed to ret.took)
LookupCallOf(pc, id, raced) == [pc |-> pc, id |-> id, raced |-> raced]

\* get_session_owner(id) is called and waits for the read guard
GetSessionOwnerCall(task, id) ==
    /\ AtRest(task)
    /\ req' = [req EXCEPT ![task] =
                  LookupCallOf("gs_wait", id,
                               {req[t].pc : t \in SessionsWriters})]
    /\ UNCHANGED <<now, cfg, ret, loginsVars, sessionsVars, credentials>>
    /\ UNCHANGED legacyVars

\* the read guard lives for the one get_by_right
GetSessionOwnerRead(task) ==
    /\ req[task].pc = "gs_wait"
    /\ ReadLockFree(SessionsWriters)
    /\ ret' = Call("get_session_owner", req[task].id,
                   get_session_owner(req[task].id), req[task].raced)
    /\ req' = [req EXCEPT ![task] = Idle]
    /\ UNCHANGED <<now, cfg, loginsVars, sessionsVars, credentials>>
    /\ UNCHANGED legacyVars

\* create_session and remove_session take the write guard, make their one
\* change of the map and return
LockedCreateSession(task, username) ==
    /\ AtRest(task)
    /\ WriteLockFree(SessionsWriters, task)
    /\ \E id \in NewSessionIds(user_session_map, username) :
          /\ user_session_map' = SessionsAfterCreate(user_session_map, username, id)
          /\ ret' = Call("create_session", username, Some(id),
                         TokensOf(user_session_map, username))
    /\ UNCHANGED <<now, cfg, loginsVars, sessions_last_cleanup, renew_calls,
                   handlerVars>>
    /\ UNCHANGED legacyVars

LockedRemoveSession(task, username) ==
    /\ AtRest(task)
    /\ WriteLockFree(SessionsWriters, task)
    /\ user_session_map' = SessionsAfterRemove(user_session_map, username)
    /\ ret' = Call("remove_session", username, None,
                   TokensOf(user_session_map, username))
    /\ UNCHANGED <<now, cfg, loginsVars, sessions_last_cleanup, renew_calls,
                   handlerVars>>
    /\ UNCHANGED legacyVars

\* renew_session up to `writer.remove_by_left(username)?` (lines 332-333):
\* the write guard is granted and the user's pair is taken out of the map;
\* for a user without a session `?` returns None at once
RenewRemove(task, username) ==
    /\ AtRest(task)
    /\ WriteLockFree(SessionsWriters, task)
    /\ IF GetByLeft(user_session_map, username) = {}
       THEN /\ req' = [req EXCEPT ![task] = Idle]
            /\ ret' = Call("renew_session", username, None, None)
            /\ user_session_map' = user_session_map
       ELSE /\ req' = [req EXCEPT ![task] =
                         SessionsCallOf("rn_removed", username, user_session_map,
                                        GetByLeft(user_session_map, username), {})]
            /\ ret' = ret
            /\ user_session_map' = RemoveByLeft(user_session_map, username)
    /\ UNCHANGED <<now, cfg, loginsVars, sessions_last_cleanup, renew_calls,
                   credentials>>
    /\ UNCHANGED legacyVars

\* the rest of renew_session: the limit test, and the insert when it passes
RenewFinish(task) ==
    /\ req[task].pc = "rn_removed"
    /\ LET username == req[task].username
           r == RenewSession(req[task].before, username)
       IN  /\ user_session_map' =
                 IF r.val = None THEN user_session_map
                 ELSE BiInsert(user_session_map, username,
                               CHOOSE d \in GetByLeft(r.map, username) : TRUE)
           /\ ret' = Call("renew_session", username, r.val,
                          IF r.val = None THEN TokensOf(req[task].before, username)
                          ELSE None)
    /\ req' = [req EXCEPT ![task] = Idle]
    /\ UNCHANGED <<now, cfg, loginsVars, sessions_last_cleanup, renew_calls,
                   credentials>>
    /\ UNCHANGED legacyVars

\* prune_expired, line 352: the test under the read guard of
\* last_cleanup_time, and the early return
PruneTest(task) ==
    /\ AtRest(task)
    /\ IF SessionsSweepDue
       THEN /\ req' = [req EXCEPT ![task] = SessionsCallOf("pr_now", "", {}, None, {})]
            /\ ret' = ret
       ELSE /\ req' = [req EXCEPT ![task] = Idle]
            /\ ret' = Call("sessions_prune_expired", "", None, {})
    /\ UNCHANGED <<now, cfg, loginsVars, sessionsVars, credentials>>
    /\ UNCHANGED legacyVars

\* line 356, right-hand side: Instant::now()
PruneNow(task) ==
    /\ req[task].pc = "pr_now"
    /\ req' = [req EXCEPT ![task].pc = "pr_store", ![task].at = now]
    /\ UNCHANGED <<now, cfg, ret, loginsVars, sessionsVars, credentials>>
    /\ UNCHANGED legacyVars

\* line 356: the store under the write guard of last_cleanup_time, made
\* before the write guard of user_session_map is asked for
PruneStore(task) ==
    /\ req[task].pc = "pr_store"
    /\ sessions_last_cleanup' = req[task].at
    /\ req' = [req EXCEPT ![task].pc = "pr_wait", ![task].at = 0]
    /\ UNCHANGED <<now, cfg, ret, loginsVars, user_session_map, renew_calls, credentials>>
    /\ UNCHANGED legacyVars

\* lines 358-359: the write guard of user_session_map is granted and the
\* map is replaced by an empty one
PruneReplace(task) ==
    /\ req[task].pc = "pr_wait"
    /\ WriteLockFree(SessionsWriters, task)
    /\ req' = [req EXCEPT ![task] =
                  SessionsCallOf("pr_sweeping", "", user_session_map, None,
                                 user_session_map)]
    /\ user_session_map' = {}
    /\ UNCHANGED <<now, cfg, ret, loginsVars, sessions_last_cleanup, renew_calls,
                   credentials>>
    /\ UNCHANGED legacyVars

\* one turn of the loop over old_sessions, in the order the map yields them
PruneVisit(task) ==
    /\ req[task].pc = "pr_sweeping"
    /\ req[task].old_sessions # {}
    /\ \E p \in req[task].old_sessions :
          /\ user_session_map' = SessionsAfterVisit(user_session_map, p)
          /\ req' = [req EXCEPT ![task].old_sessions = @ \ {p}]
    /\ UNCHANGED <<now, cfg, ret, loginsVars, sessions_last_cleanup, renew_calls,
                   credentials>>
    /\ UNCHANGED legacyVars

\* the loop is over and prune_expired returns
PruneReturn(task) ==
    /\ req[task].pc = "pr_sweeping"
    /\ req[task].old_sessions = {}
    /\ req' = [req EXCEPT ![task] = Idle]
    /\ ret' = Call("sessions_prune_expired", "", Some("swept"),
                   {p.data.id : p \in req[task].before \ user_session_map})
    /\ UNCHANGED <<now, cfg, loginsVars, sessionsVars, credentials>>
    /\ UNCHANGED legacyVars

\* the maps the call a task is inside can leave behind when it returns
MapsAfterCall(task) ==
    IF req[task].pc = "rn_removed"
    THEN {RenewSession(req[task].before, req[task].username).map}
    ELSE IF req[task].pc = "pr_sweeping"
    THEN {SweepSessions(user_session_map, req[task].old_sessions)}
    ELSE {user_session_map}

Tick ==
    /\ now < MaxTime
    /\ now' = now + 1
    /\ UNCHANGED <<cfg, ret, loginsVars, sessionsVars, handlerVars>>
    /\ UNCHANGED legacyVars

\* the clock while callers race on the lock of user_session_map
StoreRaceTick == now < MaxRaceTime /\ Tick

\* ------------------------------------------------------- specifications
LoginsConfigs ==
    [lockout_time : 1..MaxLockoutCfg,
     max_fails : 0..MaxFailsCfg,
     cleanup_interval : {1, MaxCleanupCfg},
     max_session_duration : {1},
     max_renew_count : {0}]

\* the legacy Sessions::new, Logins::new and Pipes::new
LegacyConstructed ==
    /\ legacy_user_session_map = << >>
    /\ session_user_map = << >>
    /\ sessions = << >>
    /\ used_challenges = {}
    /\ free_pipes = << >>

\* Logins::new and Sessions::new
Constructed ==
    /\ LegacyConstructed
    /\ now = 0
    /\ failed_logins = << >>
    /\ tmp_reserved_names = {}
    /\ logins_last_cleanup = 0
    /\ reservation = [t \in Tasks |-> None]
    /\ user_session_map = {}
    /\ sessions_last_cleanup = 0
    /\ ret = Call("new", "", None, None)
    /\ fail_streak = [u \in Usernames |-> NoStreak]
    /\ renew_calls = [u \in Usernames |-> -1]
    /\ credentials = Registered
    /\ req = [t \in Tasks |-> Idle]

LoginsInit == cfg \in LoginsConfigs /\ Constructed

LoginsNext ==
    \/ Tick
    \/ logins_prune_expired("t1")
    \/ LoginsPruneNow("t1")
    \/ LoginsPruneStore("t1")
    \/ LoginsPruneSweep("t1")
    \/ LoginsPruneVisit("t1")
    \/ \E u \in Usernames : mark_failed_login(u)
    \/ \E u \in Usernames : mark_succesful_login(u)
    \/ \E u \in Usernames : check_locked_out(u)

SpecLogins == LoginsInit /\ [][LoginsNext]_vars

ReserveNext ==
    \/ Tick
    \/ \E t \in Tasks, u \in Usernames : reserve_username(t, u)
    \/ \E t \in Tasks : drop_reservation(t)

SpecReserve == LoginsInit /\ [][ReserveNext]_vars

\* callers of mark_failed_login racing on the lock of failed_logins
RaceConfigs ==
    [lockout_time : {1, MaxLockoutCfg},
     max_fails : 0..MaxFailsCfg,
     cleanup_interval : {1},
     max_session_duration : {1},
     max_renew_count : {0}]

RaceInit == cfg \in RaceConfigs /\ Constructed

RaceNext ==
    \/ Tick
    \/ \E t \in Tasks, u \in Usernames : MarkFailedCall(t, u)
    \/ \E t \in Tasks : MarkFailedLock(t)
    \/ \E t \in Tasks : MarkFailedRemove(t)
    \/ \E t \in Tasks : MarkFailedInsert(t)

SpecRace == RaceInit /\ [][RaceNext]_vars

\* callers of the Sessions store racing on the lock of user_session_map
StoreRaceConfigs ==
    [lockout_time : {1},
     max_fails : {1},
     cleanup_interval : {1},
     max_session_duration : {1},
     max_renew_count : {1}]

StoreRaceInit == cfg \in StoreRaceConfigs /\ Constructed

StoreRaceNext ==
    \/ StoreRaceTick
    \/ \E t \in Tasks, id \in Tokens : GetSessionOwnerCall(t, id)
    \/ \E t \in Tasks : GetSessionOwnerRead(t)
    \/ \E t \in Tasks, u \in Usernames : LockedCreateSession(t, u)
    \/ \E t \in Tasks, u \in Usernames : LockedRemoveSession(t, u)
    \/ \E t \in Tasks, u \in Usernames : RenewRemove(t, u)
    \/ \E t \in Tasks : RenewFinish(t)
    \/ \E t \in Tasks : PruneTest(t)
    \/ \E t \in Tasks : PruneNow(t)
    \/ \E t \in Tasks : PruneStore(t)
    \/ \E t \in Tasks : PruneReplace(t)
    \/ \E t \in Tasks : PruneVisit(t)
    \/ \E t \in Tasks : PruneReturn(t)

SpecStoreRace == StoreRaceInit /\ [][StoreRaceNext]_vars

SessionsConfigs ==
    [lockout_time : {1},
     max_fails : {1},
     cleanup_interval : {MaxCleanupCfg},
     max_session_duration : {1, MaxSessionCfg},
     max_renew_count : {0, MaxRenewCfg}]

SessionsInit == cfg \in SessionsConfigs /\ Constructed

SessionsNext ==
    \/ Tick
    \/ sessions_prune_expired("t1")
    \/ SessionsPruneNow("t1")
    \/ SessionsPruneStore("t1")
    \/ SessionsPruneSweep("t1")
    \/ SessionsPruneVisit("t1")
    \/ \E u \in Usernames : create_session(u)
    \/ \E u \in Usernames : renew_session(u)
    \/ \E u \in Usernames : remove_session(u)
    \/ \E id \in Tokens : lookup_session_owner(id)

SpecSessions == SessionsInit /\ [][SessionsNext]_vars

\* the store as seen by a client that keeps the tokens it was issued, while
\* another task calls prune_expired
LifetimeConfigs ==
    [lockout_time : {1},
     max_fails : {1},
     cleanup_interval : {MaxCleanupCfg},
     max_session_duration : {1},
     max_renew_count : {0, 1}]

LifetimeInit == cfg \in LifetimeConfigs /\ Constructed

LifetimeNext ==
    \/ Tick
    \/ sessions_prune_expired("t1")
    \/ SessionsPruneNow("t1")
    \/ SessionsPruneStore("t1")
    \/ SessionsPruneSweep("t1")
    \/ SessionsPruneVisit("t1")
    \/ \E u \in Usernames : IssueToken("t2", u)
    \/ \E u \in Usernames : renew_session(u)

SpecLifetime == LifetimeInit /\ [][LifetimeNext]_vars

AuthConfigs ==
    [lockout_time : {MaxLockoutCfg},
     max_fails : {MaxFailsCfg},
     cleanup_interval : {MaxCleanupCfg},
     max_session_duration : {MaxSessionCfg},
     max_renew_count : {0}]

Init == cfg \in AuthConfigs /\ Constructed

\* the forms sent to /login: the registered user with the right and with a
\* wrong password, and a user that does not exist
LoginForms == {<<"alice", "pw1">>, <<"alice", "pw2">>, <<"bob", "pw1">>}

\* /login requests of two tasks: t1 sends any of the forms, t2 the right
\* password of alice
Next ==
    \/ Tick
    \/ \E f \in LoginForms : LoginBegin("t1", f[1], f[2])
    \/ LoginBegin("t2", "alice", "pw1")
    \/ \E t \in Tasks : LoginsPruneNow(t)
    \/ \E t \in Tasks : LoginsPruneStore(t)
    \/ \E t \in Tasks : LoginsPruneSweep(t)
    \/ \E t \in Tasks : LoginsPruneVisit(t)
    \/ \E t \in Tasks : RunCleanupsSessions(t)
    \/ \E t \in Tasks : SessionsPruneNow(t)
    \/ \E t \in Tasks : SessionsPruneStore(t)
    \/ \E t \in Tasks : SessionsPruneSweep(t)
    \/ \E t \in Tasks : SessionsPruneVisit(t)
    \/ \E t \in Tasks : LoginGate(t)
    \/ \E t \in Tasks : LoginQuery(t)
    \/ \E t \in Tasks : LoginVerify(t)
    \/ \E t \in Tasks : LoginCreateSession(t)

Spec == Init /\ [][Next]_vars

\* the two sweeps of AuthState::run_cleanups, called at any time over stores
\* that fill up
CleanupConfigs ==
    [lockout_time : {MaxLockoutCfg},
     max_fails : {1},
     cleanup_interval : {MaxCleanupCfg},
     max_session_duration : {MaxSessionCfg},
     max_renew_count : {0}]

CleanupInit == cfg \in CleanupConfigs /\ Constructed

CleanupNext ==
    \/ Tick
    \/ logins_prune_expired("t1")
    \/ LoginsPruneNow("t1")
    \/ LoginsPruneStore("t1")
    \/ LoginsPruneSweep("t1")
    \/ LoginsPruneVisit("t1")
    \/ sessions_prune_expired("t1")
    \/ SessionsPruneNow("t1")
    \/ SessionsPruneStore("t1")
    \/ SessionsPruneSweep("t1")
    \/ SessionsPruneVisit("t1")
    \/ mark_failed_login("alice")
    \/ \E u \in Usernames : create_session(u)

SpecCleanup == CleanupInit /\ [][CleanupNext]_vars

\* prune_expired of either manager called by two tasks at a time, over a
\* failure counter and a session that grow old
SweepRaceNext ==
    \/ Tick
    \/ \E t \in Tasks : logins_prune_expired(t)
    \/ \E t \in Tasks : LoginsPruneNow(t)
    \/ \E t \in Tasks : LoginsPruneStore(t)
    \/ \E t \in Tasks : LoginsPruneSweep(t)
    \/ \E t \in Tasks : LoginsPruneVisit(t)
    \/ \E t \in Tasks : sessions_prune_expired(t)
    \/ \E t \in Tasks : SessionsPruneNow(t)
    \/ \E t \in Tasks : SessionsPruneStore(t)
    \/ \E t \in Tasks : SessionsPruneSweep(t)
    \/ \E t \in Tasks : SessionsPruneVisit(t)
    \/ mark_failed_login("alice")
    \/ create_session("alice")

SpecSweepRace == CleanupInit /\ [][SweepRaceNext]_vars

\* the /sign_up handler, served to two tasks at a time
SignUpNext ==
    \/ Tick
    \/ \E u \in Usernames \cup BadUsernames, pw \in {"pw1"} \cup BadPasswords :
          SignUpBegin("t1", u, pw)
    \/ SignUpBegin("t2", "bob", "pw1")
    \/ \E t \in Tasks : LoginsPruneNow(t)
    \/ \E t \in Tasks : LoginsPruneStore(t)
    \/ \E t \in Tasks : LoginsPruneSweep(t)
    \/ \E t \in Tasks : RunCleanupsSessions(t)
    \/ \E t \in Tasks : SessionsPruneNow(t)
    \/ \E t \in Tasks : SessionsPruneStore(t)
    \/ \E t \in Tasks : SessionsPruneSweep(t)
    \/ \E t \in Tasks : SessionsPruneVisit(t)
    \/ \E t \in Tasks : SignUpValidate(t)
    \/ \E t \in Tasks : SignUpDrop(t)
    \/ \E t \in Tasks : SignUpInsert(t)
    \/ \E t \in Tasks : SignUpCreateSession(t)

SpecSignUp == Init /\ [][SignUpNext]_vars

\* the /login handler under the scheduling the server gives: the clock
\* advances and a request that is being served is served to its end, while
\* nothing obliges a client to send a request
FairNext ==
    \/ Tick
    \/ \E f \in LoginForms : LoginBegin("t1", f[1], f[2])
    \/ LoginsPruneNow("t1")
    \/ LoginsPruneStore("t1")
    \/ LoginsPruneSweep("t1")
    \/ LoginsPruneVisit("t1")
    \/ RunCleanupsSessions("t1")
    \/ SessionsPruneNow("t1")
    \/ SessionsPruneStore("t1")
    \/ SessionsPruneSweep("t1")
    \/ SessionsPruneVisit("t1")
    \/ LoginGate("t1")
    \/ LoginQuery("t1")
    \/ LoginVerify("t1")
    \/ LoginCreateSession("t1")

SpecFair ==
    /\ Init
    /\ [][FairNext]_vars
    /\ WF_vars(Tick)
    /\ WF_vars(LoginsPruneNow("t1"))
    /\ WF_vars(LoginsPruneStore("t1"))
    /\ WF_vars(LoginsPruneSweep("t1"))
    /\ WF_vars(LoginsPruneVisit("t1"))
    /\ WF_vars(RunCleanupsSessions("t1"))
    /\ WF_vars(SessionsPruneNow("t1"))
    /\ WF_vars(SessionsPruneStore("t1"))
    /\ WF_vars(SessionsPruneSweep("t1"))
    /\ WF_vars(SessionsPruneVisit("t1"))
    /\ WF_vars(LoginGate("t1"))
    /\ WF_vars(LoginQuery("t1"))
    /\ WF_vars(LoginVerify("t1"))
    /\ WF_vars(LoginCreateSession("t1"))

\* the legacy user creation, called by two tasks
LegacyAddUserNext ==
    \/ \E t \in Tasks, u \in Usernames \cup BadUsernames,
          pw \in Passwords \cup BadPasswords : add_user(t, u, pw)
    \/ \E t \in Tasks : add_user_read(t)
    \/ \E t \in Tasks : promise_finalize(t)
    \/ \E t \in Tasks : promise_drop(t)
    \/ \E t \in Tasks, u \in Usernames : delete_user(t, u)
    \/ \E t \in Tasks : deletion_finalize(t)
    \/ \E t \in Tasks : deletion_drop(t)

SpecLegacyAddUser == Init /\ [][LegacyAddUserNext]_vars

\* is_valid_username on every short username under several length limits
UsernameConfigs ==
    [lockout_time : {1},
     max_fails : {1},
     cleanup_interval : {1},
     max_session_duration : {1},
     max_renew_count : {0},
     min_username_len : {1, 2},
     max_username_len : {2, MaxUsernameLen}]

UsernameInit ==
    /\ LegacyConstructed
    /\ cfg \in UsernameConfigs
    /\ now = 0
    /\ failed_logins = << >>
    /\ tmp_reserved_names = {}
    /\ logins_last_cleanup = 0
    /\ reservation = [t \in Tasks |-> None]
    /\ user_session_map = {}
    /\ sessions_last_cleanup = 0
    /\ \E username \in UsernameInputs, flagged \in BOOLEAN :
          ret = Call("input", username, None, flagged)
    /\ fail_streak = [u \in Usernames |-> NoStreak]
    /\ renew_calls = [u \in Usernames |-> -1]
    /\ credentials = Registered
    /\ req = [t \in Tasks |-> Idle]

UsernameNext == ValidateUsername

SpecUsername == UsernameInit /\ [][UsernameNext]_vars

\* /login and /sign_up served together within one clock reading: one task
\* sends the /login requests, the other the /sign_up requests
HandlersNext ==
    \/ \E u \in Usernames, pw \in Passwords : LoginBegin("t1", u, pw)
    \/ \E t \in Tasks : RunCleanupsSessions(t)
    \/ \E t \in Tasks : LoginGate(t)
    \/ \E t \in Tasks : LoginQuery(t)
    \/ \E t \in Tasks : LoginVerify(t)
    \/ \E t \in Tasks : LoginCreateSession(t)
    \/ \E u \in Usernames \cup BadUsernames, pw \in Passwords \cup BadPasswords :
          SignUpBegin("t2", u, pw)
    \/ \E t \in Tasks : SignUpValidate(t)
    \/ \E t \in Tasks : SignUpDrop(t)
    \/ \E t \in Tasks : SignUpInsert(t)
    \/ \E t \in Tasks : SignUpCreateSession(t)

SpecHandlers == Init /\ [][HandlersNext]_vars

\* /login requests of two tasks for alice, with the right or a wrong
\* password, served together within one clock reading
LoginRaceNext ==
    \/ \E t \in Tasks, pw \in Passwords : LoginBegin(t, "alice", pw)
    \/ \E t \in Tasks : RunCleanupsSessions(t)
    \/ \E t \in Tasks : LoginGate(t)
    \/ \E t \in Tasks : LoginQuery(t)
    \/ \E t \in Tasks : LoginVerify(t)
    \/ \E t \in Tasks : LoginCreateSession(t)

SpecLoginRace == Init /\ [][LoginRaceNext]_vars

\* legacy try_login_password called by two tasks while time passes, the
\* cleanup task runs and the delete_user handler removes alice
LegacyLoginConfigs ==
    [lockout_time : {1},
     max_fails : {1, MaxFailsCfg},
     cleanup_interval : {1},
     cleanup_delay : {1},
     max_session_duration : {1},
     max_renew_count : {0}]

LegacyLoginInit ==
    /\ LegacyConstructed
    /\ cfg \in LegacyLoginConfigs
    /\ now = 0
    /\ failed_logins = << >>
    /\ tmp_reserved_names = {}
    /\ logins_last_cleanup = 0
    /\ reservation = [t \in Tasks |-> None]
    /\ user_session_map = {}
    /\ sessions_last_cleanup = 0
    /\ ret = Call("new", "", None, None)
    /\ fail_streak = [u \in Usernames |-> NoStreak]
    /\ renew_calls = [u \in Usernames |-> -1]
    /\ credentials = LegacyRegistered
    /\ req = [t \in Tasks \cup {CleanupTask} |-> Idle]

LegacyLoginNext ==
    \/ Tick
    \/ \E t \in Tasks, u \in LegacyNames, pw \in Passwords :
          TryLoginPasswordCall(t, u, pw)
    \/ \E t \in Tasks : LockoutRemove(t)
    \/ \E t \in Tasks : TryLoginPasswordMatch(t)
    \/ \E t \in Tasks : TryLoginPasswordContains(t)
    \/ \E t \in Tasks : TryLoginPasswordClear(t)
    \/ \E t \in Tasks : TryLoginPasswordCount(t)
    \/ \E t \in Tasks : TryLoginPasswordPark(t)
    \/ legacy_prune_expired
    \/ legacy_prune_park
    \/ legacy_prune_visit
    \/ \E t \in Tasks : delete_user(t, "alice")
    \/ \E t \in Tasks : deletion_finalize(t)
    \/ \E t \in Tasks : deletion_drop(t)

SpecLegacyLogin == LegacyLoginInit /\ [][LegacyLoginNext]_vars

\* the legacy Sessions: create_session calls, the one cleanup task (t2 when
\* it makes no other call) and the requests of t1 in any interleaving, on a
\* server without privileged users: the make_user and put_resource requests
\* carry any cookie, for a path the user may not write
LegacySessionsConfigs ==
    [lockout_time : {MaxLockoutCfg},
     max_fails : {1},
     cleanup_interval : {MaxCleanupCfg},
     max_session_duration : {MaxSessionCfg},
     max_renew_count : {0},
     privileged : {<< >>}]

LegacySessionsInit == cfg \in LegacySessionsConfigs /\ Constructed

LegacySessionsNext ==
    \/ LegacyTick
    \/ \E t \in Tasks, u \in Usernames : LegacyCreateLookup(t, u)
    \/ \E t \in Tasks : LegacyCreateInsertSession(t)
    \/ \E t \in Tasks : LegacyCreateInsertUser(t)
    \/ \E t \in Tasks : LegacyCreateInsertOwner(t)
    \/ LegacyPruneLockSessions("t2")
    \/ LegacyPruneLockUserMap("t2")
    \/ LegacyPruneSweep("t2")
    \/ LegacyPruneVisit("t2")
    \/ \E h \in {"make_user", "put_resource"}, c \in Cookies :
          CheckSessionId("t1", h, "list", c, FALSE)
    \/ HandlerGetSessionOwner("t1", FALSE)

SpecLegacySessions == LegacySessionsInit /\ [][LegacySessionsNext]_vars

\* legacy try_login_key called by two tasks, on a server started with or
\* without challenges already used
LegacyKeyInit ==
    /\ cfg \in StoreRaceConfigs
    /\ now = 0
    /\ failed_logins = << >>
    /\ tmp_reserved_names = {}
    /\ logins_last_cleanup = 0
    /\ reservation = [t \in Tasks |-> None]
    /\ user_session_map = {}
    /\ sessions_last_cleanup = 0
    /\ ret = Call("new", "", None, None)
    /\ fail_streak = [u \in Usernames |-> NoStreak]
    /\ renew_calls = [u \in Usernames |-> -1]
    /\ credentials \in {KeyRegistered, LegacyRegistered}
    /\ req = [t \in Tasks |-> Idle]
    /\ legacy_user_session_map = << >>
    /\ session_user_map = << >>
    /\ sessions = << >>
    /\ used_challenges \in {{}, {<<"login:", "n2">>}}
    /\ free_pipes = << >>

\* the key logins of two tasks while the delete_user and add_user handlers of
\* one of them remove and re-create bob
LegacyKeyNext ==
    \/ \E t \in Tasks, u \in Usernames, c \in Challenges, k \in Keys :
          TryLoginKeyCall(t, u, c, Sign(k, c))
    \/ \E t \in Tasks : TryLoginKeyLocked(t)
    \/ \E pw \in Passwords : add_user("t2", "bob", pw)
    \/ add_user_read("t2")
    \/ promise_finalize("t2")
    \/ promise_drop("t2")
    \/ delete_user("t2", "bob")
    \/ deletion_finalize("t2")
    \/ deletion_drop("t2")

SpecLegacyKey == LegacyKeyInit /\ [][LegacyKeyNext]_vars

\* failures and successes of one user under every max_fails a u8 holds
FailCountConfigs ==
    [lockout_time : {1},
     max_fails : 0..U8_MAX,
     cleanup_interval : {1},
     max_session_duration : {1},
     max_renew_count : {0}]

FailCountInit == cfg \in FailCountConfigs /\ Constructed

FailCountNext ==
    \/ mark_failed_login("alice")
    \/ mark_succesful_login("alice")

SpecFailCount == FailCountInit /\ [][FailCountNext]_vars

\* one user renewing a session up to the smallest and the largest limits a
\* u8 holds, next to the sessions created for another user
RenewCountConfigs ==
    [lockout_time : {1},
     max_fails : {1},
     cleanup_interval : {1},
     max_session_duration : {1},
     max_renew_count : {0, 1, 2, U8_MAX - 1, U8_MAX}]

RenewCountInit == cfg \in RenewCountConfigs /\ Constructed

RenewCountNext ==
    \/ StoreRaceTick
    \/ \E u \in Usernames : create_session(u)
    \/ renew_session("alice")

SpecRenewCount == RenewCountInit /\ [][RenewCountNext]_vars

\* requests for the six pipe handlers made by two tasks and the cleanup task
\* of the pipes, on a server where alice holds the session k1 and the
\* CreateUser privilege
LegacyPipesConfigs ==
    [lockout_time : {1},
     max_fails : {1},
     cleanup_interval : {1},
     max_session_duration : {1},
     max_renew_count : {1},
     privileged : {[u \in {"alice"} |-> {"CreateUser"}]}]

LegacyPipesInit ==
    /\ cfg \in LegacyPipesConfigs
    /\ now = 0
    /\ failed_logins = << >>
    /\ tmp_reserved_names = {}
    /\ logins_last_cleanup = 0
    /\ reservation = [t \in Tasks |-> None]
    /\ user_session_map = {}
    /\ sessions_last_cleanup = 0
    /\ ret = Call("new", "", None, None)
    /\ fail_streak = [u \in Usernames |-> NoStreak]
    /\ renew_calls = [u \in Usernames |-> -1]
    /\ credentials = LegacyRegistered
    /\ req = [t \in Tasks |-> Idle]
    /\ legacy_user_session_map = [u \in {"alice"} |-> "k1"]
    /\ session_user_map = [id \in {"k1"} |-> "alice"]
    /\ sessions = [id \in {"k1"} |-> LegacySessionData(0, "alice")]
    /\ used_challenges = {}
    /\ free_pipes = << >>

LegacyPipesNext ==
    \/ \E t \in Tasks, q \in PipeRequests, c \in Cookies :
          CheckSessionId(t, q[1], q[2], c, q[3])
    \/ \E t \in Tasks, p \in BOOLEAN : HandlerGetSessionOwner(t, p)
    \/ \E t \in Tasks, u \in {"carol", "alice"} \cup BadUsernames,
          pw \in {"pw1"} \cup BadPasswords : MakeUserAddUser(t, u, pw)
    \/ \E t \in Tasks, h \in BOOLEAN : MakeUserReadCred(t, "s1", h)
    \/ \E t \in Tasks : HandlerDeleteUser(t)
    \/ \E t \in Tasks : TakePipePop(t)
    \/ \E t \in Tasks, c \in BOOLEAN : TakePipeConnect(t, c)
    \/ \E t \in Tasks, w \in BOOLEAN : WriteSocket(t, w)
    \/ \E t \in Tasks, o \in ReadOutcomes, m \in DbAnswers : ReadSocketHeader(t, o, m)
    \/ \E t \in Tasks, r \in BOOLEAN, b \in Bodies : ReadSocketBody(t, r, b)
    \/ \E t \in Tasks : ReturnPipe(t)
    \/ \E t \in Tasks : MakeUserFinalize(t)
    \/ \E t \in Tasks : MakeUserDrop(t)
    \/ \E t \in Tasks : DeleteUserFinalize(t)
    \/ prune_pipes

SpecLegacyPipes == LegacyPipesInit /\ [][LegacyPipesNext]_vars

\* a task is between the rate-limit test and the return of a prune_expired
InPrune(r) ==
    r.pc \in {"lp_now", "lp_store", "lp_sweep", "lp_visit",
              "sp_now", "sp_store", "sp_sweep", "sp_visit"}

\* the step just taken was the call op(user): every call that runs under one
\* guard records itself in ret, only Tick moves the clock, and a step of a
\* prune_expired that goes past its test moves the task that runs it
StepOf(op, user) ==
    /\ ret'.op = op /\ ret'.user = user /\ now' = now
    /\ \A t \in Tasks : (InPrune(req[t]) \/ InPrune(req'[t])) => req'[t] = req[t]

\* the step just taken was the early return of a prune_expired call
LoginsPruneSkipped == StepOf("logins_prune_expired", "") /\ ret'.val = None
SessionsPruneSkipped == StepOf("sessions_prune_expired", "") /\ ret'.val = None

\* the step just taken was the test of a prune_expired by task t that found
\* the sweep due, the store of the sweep time, or a step of the sweep (the
\* replace of the map or a turn of its loop)
LoginsPrunePassed(t) == ~InPrune(req[t]) /\ req'[t].pc = "lp_now"
LoginsPruneStored(t) == req[t].pc = "lp_store" /\ req'[t].pc = "lp_sweep"
LoginsPruneSwept(t) == req[t].pc \in {"lp_sweep", "lp_visit"} /\ req'[t] # req[t]
SessionsPrunePassed(t) == ~InPrune(req[t]) /\ req'[t].pc = "sp_now"
SessionsPruneStored(t) == req[t].pc = "sp_store" /\ req'[t].pc = "sp_sweep"
SessionsPruneSwept(t) == req[t].pc \in {"sp_sweep", "sp_visit"} /\ req'[t] # req[t]

\* what a manager holds: the entries of its map and, while a sweep has
\* replaced the map under its write guard, the entries of the old map that
\* the loop has still to test
CountersAlive(m, rq) ==
    Entries(m) \cup UNION {rq[t].old : t \in {s \in Tasks : rq[s].pc = "lp_visit"}}
SessionsAlive(m, rq) ==
    m \cup UNION {rq[t].old : t \in {s \in Tasks : rq[s].pc = "sp_visit"}}

\* the entries of the old map that the step of the sweep of task t has tested
Visited(t) == req[t].old \ req'[t].old

\* --------------------------------------------------------------- claims
\* C1: with max_fails >= 1, after exactly max_fails consecutive failed logins
\* of a user (no successful login between them, each inside the lockout
\* window of the one before) is_user_locked_out returns
\* Some(lockout_time - time since the last failure), which is positive, until
\* lockout_time has elapsed since the last failure, and None from then on,
\* whether or not a sweep has run.
C1_LockoutThreshold ==
    \A u \in Usernames :
        (max_fails >= 1 /\ fail_streak[u].n = max_fails /\ FailedLoginsWriters = {}) =>
            LET elapsed == now - fail_streak[u].last
            IN  /\ elapsed < lockout_time =>
                     /\ is_user_locked_out(u) = Some(lockout_time - elapsed)
                     /\ lockout_time - elapsed > 0
                /\ elapsed >= lockout_time => is_user_locked_out(u) = None

\* a streak of max_fails >= 2 failures whose lockout has run out while the
\* counter is still stored (no sweep took it)
C1_Witness ==
    \E u \in Usernames :
        /\ max_fails >= 2
        /\ fail_streak[u].n = max_fails
        /\ FailedLoginsWriters = {}
        /\ u \in DOMAIN failed_logins
        /\ now - fail_streak[u].last >= lockout_time
        /\ is_user_locked_out(u) = None

\* C4: a reserved name is held by exactly one live UsernameReservation and a
\* name no live handle holds is free, so two reserve_username calls for one
\* name never both return Some and the first reserve_username after the drop
\* of the handle returns Some.
C4_ReservationExclusivity ==
    /\ \A t1, t2 \in Tasks :
           t1 # t2 => reservation[t1] \cap reservation[t2] = {}
    /\ tmp_reserved_names = UNION {reservation[t] : t \in Tasks}
    /\ (ret.op = "reserve_username" /\ ret.val = None) =>
           \E t \in Tasks : reservation[t] = Some(ret.user)
    /\ (ret.op = "drop_reservation") => ret.user \notin tmp_reserved_names

\* a second reserve_username for a name was refused while a task holds it
C4_Witness ==
    /\ ret.op = "reserve_username"
    /\ ret.val = None
    /\ \E t \in Tasks : reservation[t] = Some(ret.user)

\* C9: mark_succesful_login removes the user's counter whatever its count and
\* leaves every other user's counter as it was; the first mark_failed_login
\* after it leaves running_count = 1.
C9_ResetOnSuccess ==
    [][\A u \in Usernames :
          /\ StepOf("mark_succesful_login", u) =>
                /\ u \notin DOMAIN failed_logins'
                /\ \A v \in Usernames \ {u} :
                      /\ (v \in DOMAIN failed_logins') = (v \in DOMAIN failed_logins)
                      /\ v \in DOMAIN failed_logins =>
                            failed_logins'[v] = failed_logins[v]
          /\ (StepOf("mark_failed_login", u) /\ fail_streak[u].n = 0) =>
                /\ u \in DOMAIN failed_logins'
                /\ failed_logins'[u].running_count = 1
      ]_vars

\* a successful login has just cleared a counter of N failures, 1 <= N <
\* max_fails, while another user's counter is stored
C9_Witness ==
    /\ ret.op = "mark_succesful_login"
    /\ \E n \in 1..(max_fails - 1) : ret.took = Some(n)
    /\ ret.user \notin DOMAIN failed_logins
    /\ DOMAIN failed_logins # {}

\* C10: mark_failed_login sets running_count to 1 when the stored count has
\* reached max_fails, creates the counter at 1 when there is none, and adds
\* exactly 1 otherwise; in every case the timestamp becomes now.
C10_ResetToOne ==
    [][\A u \in Usernames :
          StepOf("mark_failed_login", u) =>
              /\ u \in DOMAIN failed_logins'
              /\ failed_logins'[u].time = now
              /\ failed_logins'[u].running_count =
                    IF u \notin DOMAIN failed_logins THEN 1
                    ELSE IF failed_logins[u].running_count >= max_fails THEN 1
                    ELSE failed_logins[u].running_count + 1
      ]_vars

\* a failure recorded on a counter that had reached max_fails >= 2 put it
\* back to 1 with a fresh timestamp
C10_Witness ==
    /\ ret.op = "mark_failed_login"
    /\ max_fails >= 2
    /\ ret.took = Some(max_fails)
    /\ failed_logins[ret.user] = FailedLoginAttempt(1, now)
    /\ now > 0

\* C2: when create_session(u) returned t2 while u held t1, t1 no longer
\* resolves and t2 resolves to u (until the next call on the store); and in
\* every state no two different tokens resolve to the same username.
C2_SingleOwnership ==
    /\ (ret.op = "create_session" /\ SessionsWriters = {}) =>
          /\ \A t2 \in ret.val : get_session_owner(t2) = Some(ret.user)
          /\ \A t1 \in ret.took : t1 \notin ret.val /\ get_session_owner(t1) = None
    /\ \A t1, t2 \in Tokens :
          t1 # t2 => get_session_owner(t1) \cap get_session_owner(t2) = {}

\* create_session has just replaced the user's session t1 by t2, the other
\* user holding a session too
C2_Witness ==
    /\ ret.op = "create_session"
    /\ \E t1, t2 \in Tokens :
          /\ t1 # t2
          /\ ret.took = Some(t1)
          /\ ret.val = Some(t2)
          /\ get_session_owner(t1) = None
          /\ get_session_owner(t2) = Some(ret.user)
    /\ Cardinality(user_session_map) = 2

\* C3: the two views of the store agree in every state: a username has at
\* most one session, a live token has exactly one owner, and
\* get_session_owner(t) = Some(u) exactly when t is the id of u's session.
C3_BidirectionalMap ==
    /\ \A p, q \in user_session_map :
          (p.username = q.username \/ p.data.id = q.data.id) => p = q
    /\ \A u \in Usernames : Cardinality(GetByLeft(user_session_map, u)) <= 1
    /\ \A t \in Tokens : Cardinality(get_session_owner(t)) <= 1
    /\ \A t \in Tokens, u \in Usernames :
          (get_session_owner(t) = Some(u)) <=> (TokensOf(user_session_map, u) = Some(t))

\* two users hold sessions, one of them renewed, after a sweep has run
C3_Witness ==
    /\ Cardinality(user_session_map) = 2
    /\ \E p \in user_session_map : p.data.renew_count > 0
    /\ sessions_last_cleanup > 0

\* C5: counted from the create_session that made the session, the k-th
\* renew_session(u) returns Some(max_renew_count - k) for k = 1..max_renew_count
\* and the (max_renew_count + 1)-th returns None.
C5_RenewalBound ==
    \A u \in Usernames :
        (ret.op = "renew_session" /\ ret.user = u /\ renew_calls[u] >= 1) =>
            ret.val = IF renew_calls[u] <= max_renew_count
                      THEN Some(max_renew_count - renew_calls[u])
                      ELSE None

\* the (max_renew_count + 1)-th renewal of a session has just been refused,
\* with max_renew_count >= 2
C5_Witness ==
    /\ ret.op = "renew_session"
    /\ max_renew_count >= 2
    /\ renew_calls[ret.user] = max_renew_count + 1
    /\ ret.val = None

\* C6: get_session_owner(t) returns Some(u) only for the id of u's session and
\* only while now - creation_time < max_session_duration.
C6_SessionValidity ==
    \A t \in Tokens, u \in Usernames :
        (SessionsWriters = {} /\ get_session_owner(t) = Some(u)) =>
            \E p \in user_session_map :
                /\ p.username = u
                /\ p.data.id = t
                /\ now - p.data.creation_time < max_session_duration

\* C7: a sweep that runs leaves exactly the sessions younger than
\* max_session_duration, unchanged, so an evicted token no longer resolves;
\* and neither the passing of time nor a call of prune_expired stops a
\* session younger than max_session_duration from resolving.
C7_ExpiryBySweep ==
    [][/\ \A t \in Tasks :
             SessionsPruneSwept(t) =>
                /\ req[t].pc = "sp_sweep" =>
                      SessionsAlive(user_session_map', req') = user_session_map
                /\ req[t].pc = "sp_visit" =>
                      /\ Cardinality(Visited(t)) = 1
                      /\ \A p \in Visited(t) :
                            IF now - p.data.creation_time < max_session_duration
                            THEN user_session_map' = user_session_map \cup {p}
                            ELSE /\ user_session_map' = user_session_map
                                 /\ p \notin SessionsAlive(user_session_map', req')
                                 /\ GetSessionOwner(user_session_map', p.data.id) = None
       /\ (\/ now' # now
           \/ SessionsPruneSkipped
           \/ \E t \in Tasks : InPrune(req[t]) /\ req'[t] # req[t]
           \/ \E t \in Tasks : SessionsPrunePassed(t)) =>
             \A p \in SessionsAlive(user_session_map, req) :
                 now' - p.data.creation_time < max_session_duration =>
                     /\ p \in SessionsAlive(user_session_map', req')
                     /\ SessionsWriters' = {} =>
                           GetSessionOwner(user_session_map', p.data.id) = Some(p.username)
      ]_vars

\* a prune_expired call has just swept: it evicted one user's expired
\* session and kept the other user's younger one
C7_Witness ==
    /\ \A t \in Tasks : req[t].pc = "idle"
    /\ ret.op = "sessions_prune_expired"
    /\ ret.val # None
    /\ sessions_last_cleanup = now
    /\ Cardinality(ret.took) = 1
    /\ \A t \in ret.took : get_session_owner(t) = None
    /\ Cardinality(user_session_map) = 1
    /\ \E p \in user_session_map : p.data.creation_time < now

\* the stored password of a registered user matches the submitted one
PasswordCorrect(username, password) ==
    /\ username \in DOMAIN credentials
    /\ verify_raw(password, credentials[username].salt, credentials[username].hash)

\* C8: a /login request for a user who is locked out when the handler tests
\* it is answered Forbidden with the remaining time whatever the password,
\* the user's failure counter stays as it was and no session is created; a
\* request that passes the test with the correct password (no internal
\* fault) has its failure counter removed and is answered Ok with a token
\* that resolves to the user.
C8_LockedOutLoginRefused ==
    [][\A t \in Tasks :
          LET u == req'[t].username
              locked == IsLockedOut(failed_logins', u)
          IN  /\ (req[t].pc = "login_gate" /\ req'[t] # req[t]) =>
                    /\ locked # None =>
                          /\ req'[t].pc = "done"
                          /\ req'[t].response = <<"Forbidden", locked>>
                          /\ u \in DOMAIN failed_logins
                          /\ failed_logins'[u] = failed_logins[u]
                          /\ user_session_map' \subseteq user_session_map
                    /\ locked = None => req'[t].pc = "login_query"
              /\ (/\ req[t].pc = "login_verify"
                  /\ req'[t] # req[t]
                  /\ req'[t].response # <<"NotFound", "BUG">>
                  /\ PasswordCorrect(u, req[t].password)) =>
                    /\ req'[t].pc = "login_session"
                    /\ u \notin DOMAIN failed_logins'
              /\ (req[t].pc = "login_session" /\ req'[t] # req[t]) =>
                    /\ req'[t].pc = "done"
                    /\ req'[t].response[1] = "Ok"
                    /\ GetSessionOwner(user_session_map', req'[t].response[2]) = Some(u)
      ]_vars

\* one request with the correct password was refused during the lockout, and
\* another, made after the window ran out, cleared the counter of max_fails
\* failures and got a token
C8_Witness ==
    \E t1, t2 \in Tasks :
        /\ req[t1].pc = "done"
        /\ req[t1].response[1] = "Forbidden"
        /\ PasswordCorrect(req[t1].username, req[t1].password)
        /\ req[t2].pc = "done"
        /\ req[t2].username = req[t1].username
        /\ req[t2].lockout_over
        /\ req[t2].response[1] = "Ok"
        /\ req[t2].took = Some(max_fails)
        /\ req[t2].username \notin DOMAIN failed_logins
        /\ get_session_owner(req[t2].response[2]) = Some(req[t2].username)

\* C11: no lost updates.  While no mark_failed_login call for a username is
\* inside its critical section, the stored count is the number k of the
\* calls made for that username, for every k <= max_fails and every
\* interleaving of the callers (no counter at all when k = 0), so calls for
\* another username never change it.
C11_NoLostUpdates ==
    \A u \in Usernames :
        (\A t \in FailedLoginsWriters : req[t].username # u) =>
            /\ fail_streak[u].n = 0 => u \notin DOMAIN failed_logins
            /\ fail_streak[u].n \in 1..max_fails =>
                  /\ u \in DOMAIN failed_logins
                  /\ failed_logins[u].running_count = fail_streak[u].n

\* two calls for one username that were in flight together have both
\* returned and the count is 2, while the other username's count is 1
C11_Witness ==
    \E t1, t2 \in Tasks, u, v \in Usernames :
        /\ t1 # t2 /\ u # v
        /\ req[t1].pc = "returned" /\ req[t2].pc = "returned"
        /\ req[t1].username = u /\ req[t2].username = u
        /\ req[t2].raced
        /\ fail_streak[u].n = 2
        /\ failed_logins[u].running_count = 2
        /\ v \in DOMAIN failed_logins
        /\ failed_logins[v].running_count = 1

\* C12: atomic lookups.  The answer of a get_session_owner call is the answer
\* of the map as it is between calls; were the lookup to run while a
\* renew_session or a prune_expired is inside its critical section, its
\* answer would still have to be that of the map before that call or of the
\* map after it, so that a session is never seen absent in the middle of a
\* granted renewal or, unexpired, in the middle of a sweep.
C12_AtomicLookups ==
    [][\A task \in Tasks, id \in Tokens :
          (/\ req[task].pc = "gs_wait" /\ req[task].id = id
           /\ req'[task].pc = "idle") =>
              IF SessionsWriters = {}
              THEN ret'.val = GetSessionOwner(user_session_map, id)
              ELSE \A t \in SessionsWriters :
                      \/ ret'.val = GetSessionOwner(req[t].before, id)
                      \/ \E m \in MapsAfterCall(t) : ret'.val = GetSessionOwner(m, id)
      ]_vars

\* a lookup called while a renew_session was inside its critical section has
\* returned the owner of the session, whose renewal was granted
C12_Witness ==
    \E u \in Usernames :
        /\ ret.op = "get_session_owner"
        /\ ret.took = {"rn_removed"}
        /\ ret.val = Some(u)
        /\ \E d \in GetByLeft(user_session_map, u) :
              d.id = ret.user /\ d.renew_count = 1 /\ d.creation_time = now

\* C13: a token that resolves to a user stops resolving only in a sweep that
\* evicts it as expired, in a remove_session for that user or in a
\* create_session for that user; and a renew_session that returns None for a
\* user who holds a session leaves that session (token, owner, creation_time,
\* renew_count) in place and resolvable.
C13_SessionStateMachine ==
    [][\A u \in Usernames :
          /\ \A p \in SessionsAlive(user_session_map, req) :
                (p.username = u
                 /\ ~\E q \in SessionsAlive(user_session_map', req') :
                        q.username = u /\ q.data.id = p.data.id) =>
                    \/ /\ \E t \in Tasks : SessionsPruneSwept(t) /\ p \in Visited(t)
                       /\ now - p.data.creation_time >= max_session_duration
                    \/ StepOf("remove_session", u)
                    \/ StepOf("create_session", u)
          /\ (/\ StepOf("renew_session", u)
              /\ ret'.val = None
              /\ GetByLeft(user_session_map, u) # {}) =>
                 /\ GetByLeft(user_session_map', u) = GetByLeft(user_session_map, u)
                 /\ \A id \in TokensOf(user_session_map, u) :
                       GetSessionOwner(user_session_map', id) = Some(u)
      ]_vars

\* C14: while no later create_session has been made for its user, a token
\* resolves through get_session_owner at most
\* (max_renew_count + 1) * max_session_duration after the create_session that
\* issued it, whatever renew_session and prune_expired calls are made and
\* whenever they are made.
C14_BoundedLifetime ==
    \A t \in Tasks :
        (/\ req[t].pc = "holding"
         /\ get_session_owner(req[t].token) = Some(req[t].username)) =>
            now - req[t].born <= (max_renew_count + 1) * max_session_duration

\* C15: a counter is gone after a successful login, and a failed login that
\* arrives more than lockout_time after the user's previous failure leaves
\* running_count at 1 instead of adding to the old streak, whether a sweep has
\* removed the old counter or not.
C15_CounterLifetime ==
    [][\A u \in Usernames :
          /\ StepOf("mark_succesful_login", u) => u \notin DOMAIN failed_logins'
          /\ (/\ StepOf("mark_failed_login", u)
              /\ u \in DOMAIN failed_logins
              /\ now - failed_logins[u].time > lockout_time) =>
                 failed_logins'[u].running_count = 1
      ]_vars

\* C16: a /sign_up request that has returned, on whatever path, holds no
\* reservation handle; a name is in the reservation set only while the
\* request that reserved it is inside the statement that reserves it, so no
\* name stays reserved once the requests have returned.
C16_NoUsernameLeak ==
    /\ \A t \in Tasks : req[t].pc = "done" => reservation[t] = None
    /\ \A t \in Tasks : reservation[t] # None => req[t].pc = "su_reserved"
    /\ tmp_reserved_names = UNION {reservation[t] : t \in Tasks}

\* one request that had reserved its name ended in a database error, the
\* other, for bob, was answered Ok, and no name is reserved
C16_Witness ==
    \E t1, t2 \in Tasks :
        /\ req[t1].pc = "done" /\ req[t1].reserved
        /\ req[t1].response = <<"InternalServerError", "BUG">>
        /\ req[t2].pc = "done" /\ req[t2].reserved
        /\ req[t2].response[1] = "Ok"
        /\ req[t2].username \in DOMAIN credentials
        /\ tmp_reserved_names = {}

\* C17: reserve_username returns None for a name that is reserved and for a
\* name that has a row in PasswordUsers, so no task ever holds a reservation
\* handle for a registered username.
C17_NoHandleForRegistered ==
    /\ (ret.op = "reserve_username"
        /\ \E t \in Tasks : reservation[t] = Some(ret.user) /\ ret.val # Some(t)) =>
           ret.val = None
    /\ (ret.op = "reserve_username" /\ ret.user \in DOMAIN credentials) =>
           ret.val = None
    /\ \A t \in Tasks : reservation[t] \cap DOMAIN credentials = {}

\* C18: a prune_expired call of either manager made less than
\* cleanup_interval after the manager's previous sweep (or after
\* construction) changes nothing, so expired entries survive it; a call made
\* cleanup_interval or more after it sweeps (only the entries younger than
\* the manager's limit remain) and records the time of the sweep, so the
\* recorded time of the previous sweep never moves back and no call is let
\* through less than cleanup_interval after a sweep.
C18_SweepRateLimit ==
    [][/\ LoginsPruneSkipped =>
             /\ now - logins_last_cleanup < cleanup_interval
             /\ UNCHANGED <<failed_logins, tmp_reserved_names,
                            logins_last_cleanup, user_session_map,
                            sessions_last_cleanup>>
       /\ SessionsPruneSkipped =>
             /\ now - sessions_last_cleanup < cleanup_interval
             /\ UNCHANGED <<failed_logins, tmp_reserved_names,
                            logins_last_cleanup, user_session_map,
                            sessions_last_cleanup>>
       /\ \A t \in Tasks :
             /\ LoginsPrunePassed(t) => now - logins_last_cleanup >= cleanup_interval
             /\ LoginsPruneStored(t) => logins_last_cleanup' >= logins_last_cleanup
             /\ LoginsPruneSwept(t) =>
                   /\ CountersAlive(failed_logins', req')
                         \subseteq CountersAlive(failed_logins, req)
                   /\ \A e \in CountersAlive(failed_logins, req) :
                         e \notin CountersAlive(failed_logins', req') <=>
                            (e \in Visited(t) /\ now - e.data.time >= lockout_time)
             /\ SessionsPrunePassed(t) => now - sessions_last_cleanup >= cleanup_interval
             /\ SessionsPruneStored(t) => sessions_last_cleanup' >= sessions_last_cleanup
             /\ SessionsPruneSwept(t) =>
                   /\ SessionsAlive(user_session_map', req')
                         \subseteq SessionsAlive(user_session_map, req)
                   /\ \A p \in SessionsAlive(user_session_map, req) :
                         p \notin SessionsAlive(user_session_map', req') <=>
                            (/\ p \in Visited(t)
                             /\ now - p.data.creation_time >= max_session_duration)
      ]_vars

\* C19: a session older than max_session_duration and a failure counter older
\* than lockout_time are eventually removed from their stores, whether or
\* not any further request arrives.
C19_CleanupWithoutTraffic ==
    \A u \in Usernames :
        /\ (\E d \in GetByLeft(user_session_map, u) :
                now - d.creation_time > max_session_duration)
              ~> (\A d \in GetByLeft(user_session_map, u) :
                     now - d.creation_time <= max_session_duration)
        /\ (u \in DOMAIN failed_logins
             /\ now - failed_logins[u].time > lockout_time)
              ~> (u \in DOMAIN failed_logins =>
                     now - failed_logins[u].time <= lockout_time)

\* C20: after remove_session(u), u has no session and the token u held no
\* longer resolves; for a user without a session the call changes nothing;
\* either way every other user's session (token, creation_time, renew_count)
\* is as it was.
C20_RemoveSessionLocal ==
    [][\A u \in Usernames :
          StepOf("remove_session", u) =>
              /\ GetByLeft(user_session_map', u) = {}
              /\ \A id \in TokensOf(user_session_map, u) :
                    GetSessionOwner(user_session_map', id) = None
              /\ GetByLeft(user_session_map, u) = {} =>
                    user_session_map' = user_session_map
              /\ \A v \in Usernames \ {u} :
                    GetByLeft(user_session_map', v) = GetByLeft(user_session_map, v)
              /\ sessions_last_cleanup' = sessions_last_cleanup
      ]_vars

\* remove_session has just taken a user's session out of the store while the
\* other user holds a renewed session made at an earlier time
C20_Witness ==
    /\ ret.op = "remove_session"
    /\ ret.took # {}
    /\ GetByLeft(user_session_map, ret.user) = {}
    /\ \A id \in ret.took : get_session_owner(id) = None
    /\ \E p \in user_session_map :
          /\ p.username # ret.user
          /\ p.data.renew_count > 0
          /\ p.data.creation_time < now

\* C21: is_user_locked_out is a pure read: whatever the username and the
\* state, a stored lockout that has run out included, the call leaves the
\* failure counters, the reservation set and the last-cleanup time as they
\* were, and it returns None for a username that has no counter.
C21_LockoutCheckPure ==
    [][\A u \in Usernames :
          StepOf("is_user_locked_out", u) =>
              /\ UNCHANGED <<failed_logins, tmp_reserved_names, logins_last_cleanup>>
              /\ u \notin DOMAIN failed_logins => ret'.val = None
      ]_vars

\* the call has just returned None for a user whose stored counter reached
\* max_fails and whose lockout has run out; the counter is still stored
C21_Witness ==
    /\ ret.op = "is_user_locked_out"
    /\ ret.val = None
    /\ max_fails >= 1
    /\ ret.user \in DOMAIN failed_logins
    /\ failed_logins[ret.user].running_count >= max_fails
    /\ now - failed_logins[ret.user].time >= lockout_time

\* C22: create_session(u) never returns an id that is in the store when it
\* is called, whoever holds it, so every other user's session is left as it
\* was and every other user's token keeps resolving to that user.
C22_TokenCollisionFreedom ==
    [][\A u \in Usernames :
          StepOf("create_session", u) =>
              /\ \A id \in ret'.val : ~ContainsRight(user_session_map, id)
              /\ \A v \in Usernames \ {u} :
                    /\ GetByLeft(user_session_map', v) = GetByLeft(user_session_map, v)
                    /\ \A id \in TokensOf(user_session_map, v) :
                          GetSessionOwner(user_session_map', id) = Some(v)
      ]_vars

\* create_session has just replaced a user's session while the other user's
\* session, made at an earlier time, is still stored under its own id
C22_Witness ==
    /\ ret.op = "create_session"
    /\ ret.took # {}
    /\ \E p \in user_session_map :
          /\ p.username # ret.user
          /\ p.data.creation_time < now
          /\ p.data.id \notin ret.val \cup ret.took
          /\ get_session_owner(p.data.id) = Some(p.username)

\* C23: a /login with the correct password for a user who holds a session
\* younger than max_session_duration is answered Ok with the id of that
\* session, not with a new one.
C23_ExistingSessionReturned ==
    [][\A t \in Tasks :
          (req[t].pc = "login_session" /\ req'[t].pc = "done") =>
              \A d \in GetByLeft(user_session_map, req[t].username) :
                  now - d.creation_time < max_session_duration =>
                      req'[t].response = <<"Ok", d.id>>
      ]_vars

\* C24: while a task holds a UserCreationPromise for a username, add_user
\* for that username fails with UsernameInUse, so no two tasks hold a promise
\* for the same username at once and a finalize never overwrites the
\* credential another promise for the name has just written.
C24_LegacyAddUserReservation ==
    /\ \A t1, t2 \in Tasks :
          t1 # t2 => reservation[t1] \cap reservation[t2] = {}
    /\ (ret.op = "finalize") => ret.took = None

\* C25: is_valid_username answers the error of the first check that fails in
\* the order contains-whitespace, too-short, too-long, not-alphanumeric,
\* flagged-inappropriate, whatever later checks fail too, and Ok exactly when
\* none of the five fails.
C25_FirstFailingCheck ==
    ret.op = "is_valid_username" =>
        LET username == ret.user
            errors == <<"ContainsWhitespace", "TooShort", "TooLong",
                        "IsNotAlphanumeric", "Inappropriate">>
            fails == <<\E i \in DOMAIN username : is_whitespace(username[i]),
                       StrLen(username) < min_username_len,
                       StrLen(username) > max_username_len,
                       \E i \in DOMAIN username : ~is_alphanumeric(username[i]),
                       ret.took>>
            failing == {i \in 1..5 : fails[i]}
        IN  /\ failing # {} =>
                   \E i \in failing :
                      /\ \A j \in failing : i <= j
                      /\ ret.val = errors[i]
            /\ failing = {} <=> ret.val = "Ok"

\* a username with whitespace that is also too short and flagged is refused
\* for its whitespace
C25_Witness ==
    /\ ret.op = "is_valid_username"
    /\ ret.val = "ContainsWhitespace"
    /\ StrLen(ret.user) < min_username_len
    /\ ret.took

\* C27: the lockout is not skipped by concurrent requests: once max_fails
\* wrong-password attempts for a username stand recorded, each less than
\* lockout_time after the one before and with no successful login since, a
\* step of any /login request that is not a successful login for the username
\* and lets no time pass leaves is_user_locked_out(username) answering Some
\* (to a call made once no sweep holds the counters); a failure recorded by a
\* concurrent request does not wrap the counter.
C27_LockoutNotSkipped ==
    [][\A u \in Usernames :
          (/\ max_fails >= 1
           /\ fail_streak[u].n = max_fails
           /\ now - fail_streak[u].last < lockout_time
           /\ fail_streak'[u] # NoStreak
           /\ now' = now
           /\ FailedLoginsWriters' = {}) =>
              IsLockedOut(failed_logins', u) # None
      ]_vars

\* C28: no login succeeds during a lockout: the step in which a /login
\* request has its password verified, clears the failure counter and goes on
\* to create the session is never taken while the counter of its username
\* has reached max_fails and the lockout window has not elapsed.
C28_NoSuccessDuringLockout ==
    [][\A t \in Tasks :
          (req[t].pc = "login_verify" /\ req'[t].pc = "login_session") =>
              IsLockedOut(failed_logins, req[t].username) = None
      ]_vars

\* C29: the reservation spans the sign-up transaction: the name a /sign_up
\* request reserved is still in the reservation set when the request is at
\* its INSERT, and a request that comes to its reserve_username with a valid
\* name and password while another request for that name is between its
\* reserve_username and the end of its INSERT is answered
\* "Username already in use".
C29_ReservationSpansInsert ==
    [][\A t \in Tasks :
          /\ req'[t].pc = "su_insert" => req'[t].username \in tmp_reserved_names'
          /\ \A t2 \in Tasks \ {t} :
                (/\ req[t].pc \in {"su_reserved", "su_insert"}
                 /\ req[t2].pc = "su_validate"
                 /\ req'[t2] # req[t2]
                 /\ req'[t2].username = req[t].username
                 /\ is_valid_password(req'[t2].password)) =>
                    /\ req'[t2].pc = "done"
                    /\ req'[t2].response = <<"BadRequest", "Username already in use">>
      ]_vars

\* C30: duplicate sign-ups.  Among /sign_up requests for one username, in
\* any interleaving, a credential row is inserted only for a name that has
\* none and leaves the other rows as they are, and no other request is at
\* that moment the creator of a row for the name; the request that inserted
\* the row, and no other, is answered Ok with a token that resolves to the
\* name; a request answered with a username-in-use error inserts no row and
\* creates or replaces no session, and the name is then reserved by another
\* request or has a row.
C30_DuplicateSignUps ==
    [][\A t \in Tasks :
          LET u == req'[t].username
              InUse == {<<"BadRequest", "Username already in use">>,
                        <<"BadRequest", "Username is already in use">>}
          IN  /\ (req[t].pc = "su_insert" /\ req'[t].pc = "su_session") =>
                    /\ u \notin DOMAIN credentials
                    /\ DOMAIN credentials' = DOMAIN credentials \cup {u}
                    /\ \A v \in DOMAIN credentials : credentials'[v] = credentials[v]
                    /\ \A t2 \in Tasks \ {t} :
                          ~(/\ req[t2].username = u
                            /\ \/ req[t2].pc = "su_session"
                               \/ req[t2].pc = "done" /\ req[t2].response[1] = "Ok")
              /\ (req[t].pc # "su_insert" \/ req'[t].pc # "su_session") =>
                    credentials' = credentials \/ req'[t] = req[t]
              /\ (req[t].pc = "su_session" /\ req'[t] # req[t]) =>
                    /\ req'[t].pc = "done"
                    /\ req'[t].response[1] = "Ok"
                    /\ GetSessionOwner(user_session_map', req'[t].response[2]) = Some(u)
              /\ (req'[t] # req[t] /\ req'[t].pc = "done" /\ req'[t].response[1] = "Ok") =>
                    req[t].pc = "su_session"
              /\ (req'[t] # req[t] /\ req[t].pc # "su_session") =>
                    SessionsAlive(user_session_map', req')
                       \subseteq SessionsAlive(user_session_map, req)
              /\ (req'[t] # req[t] /\ req'[t].pc = "done" /\ req'[t].response \in InUse) =>
                    /\ credentials' = credentials
                    /\ user_session_map' = user_session_map
                    /\ u \in DOMAIN credentials \/ u \in tmp_reserved_names
      ]_vars

\* two requests for bob were at their INSERT together: one was answered Ok
\* with a token, the other was refused by the INSERT
C30_Witness ==
    \E t1, t2 \in Tasks :
        /\ t1 # t2
        /\ req[t1].pc = "done" /\ req[t2].pc = "done"
        /\ req[t1].username = "bob" /\ req[t2].username = "bob"
        /\ req[t1].response[1] = "Ok"
        /\ get_session_owner(req[t1].response[2]) = Some("bob")
        /\ req[t2].reserved
        /\ req[t2].response = <<"BadRequest", "Username is already in use">>

\* C31: sessions are minted only after success.  A step that creates or
\* replaces the session of a user is the Ok answer of a /login or /sign_up
\* request for that user; a /login request comes to that answer only from
\* verifying its password against the stored hash of the user, and a
\* /sign_up request only from the INSERT that wrote the user's row.
C31_SessionsOnlyAfterSuccess ==
    [][/\ \A u \in Usernames \cup BadUsernames :
             GetByLeft(user_session_map', u) \ GetByLeft(user_session_map, u) # {} =>
                 \E t \in Tasks :
                    /\ req[t].username = u
                    /\ req[t].pc \in {"login_session", "su_session"}
                    /\ req'[t].pc = "done"
                    /\ req'[t].response[1] = "Ok"
       /\ \A t \in Tasks :
             LET u == req'[t].username
             IN  /\ (req'[t].pc = "login_session" /\ req[t].pc # "login_session") =>
                       /\ req[t].pc = "login_verify"
                       /\ u \in DOMAIN credentials
                       /\ hash_raw(req[t].password, credentials[u].salt)
                             = credentials[u].hash
                 /\ (req'[t].pc = "su_session" /\ req[t].pc # "su_session") =>
                       /\ req[t].pc = "su_insert"
                       /\ u \notin DOMAIN credentials
                       /\ u \in DOMAIN credentials'
                       /\ hash_raw(req[t].password, credentials'[u].salt)
                             = credentials'[u].hash
      ]_vars

\* bob signed up and was given a token, and a later /login of bob with the
\* password he signed up with was given another, while a wrong password for
\* alice has been counted
C31_Witness ==
    \E t1, t2 \in Tasks :
        /\ req[t1].pc = "done" /\ "reserved" \in DOMAIN req[t1]
        /\ req[t1].username = "bob" /\ req[t1].response[1] = "Ok"
        /\ req[t2].pc = "done" /\ "row" \in DOMAIN req[t2]
        /\ req[t2].username = "bob" /\ req[t2].response[1] = "Ok"
        /\ get_session_owner(req[t2].response[2]) = Some("bob")
        /\ "alice" \in DOMAIN failed_logins

\* C32: a /login request refused because the user is locked out, and a
\* /login request for an unknown username, change no failure counter and no
\* session apart from the rate-limited sweep at the top of the request: every
\* counter and session present after a step of such a request was there
\* before with the same content, what is gone had run out, nothing is gone
\* unless the step is a sweep of the run_cleanups of the request, which the
\* request reaches only with the sweep due, and the counter of a refused
\* user stays with its count and timestamp.
C32_RefusedLoginChangesNothing ==
    [][\A t \in Tasks :
          LET u == req'[t].username
              refused == req'[t].pc = "done" /\ req'[t].response[1] = "Forbidden"
          IN  (req'[t] # req[t] /\ (refused \/ u \notin DOMAIN credentials)) =>
                 /\ CountersAlive(failed_logins', req')
                       \subseteq CountersAlive(failed_logins, req)
                 /\ \A e \in CountersAlive(failed_logins, req)
                              \ CountersAlive(failed_logins', req') :
                       now - e.data.time >= lockout_time
                 /\ SessionsAlive(user_session_map', req')
                       \subseteq SessionsAlive(user_session_map, req)
                 /\ \A p \in SessionsAlive(user_session_map, req)
                              \ SessionsAlive(user_session_map', req') :
                       now - p.data.creation_time >= max_session_duration
                 /\ ~LoginsPruneSwept(t) => failed_logins' = failed_logins
                 /\ ~SessionsPruneSwept(t) => user_session_map' = user_session_map
                 /\ LoginsPrunePassed(t) => now - logins_last_cleanup >= cleanup_interval
                 /\ SessionsPrunePassed(t) => now - sessions_last_cleanup >= cleanup_interval
                 /\ refused => /\ u \in DOMAIN failed_logins
                                /\ u \in DOMAIN failed_logins'
                                /\ failed_logins'[u] = failed_logins[u]
      ]_vars

\* after a sweep has run, one request was refused for the lockout of alice,
\* whose counter stands at max_fails, and another was told that bob does not
\* exist
C32_Witness ==
    \E t1, t2 \in Tasks :
        /\ req[t1].pc = "done" /\ req[t1].response[1] = "Forbidden"
        /\ req[t1].username \in DOMAIN failed_logins
        /\ failed_logins[req[t1].username].running_count = max_fails
        /\ req[t2].pc = "done"
        /\ req[t2].response = <<"BadRequest", "User does not exist">>
        /\ logins_last_cleanup > 0

\* C33: internal faults leave the state unchanged.  A /login request whose
\* SELECT or verify_password fails, and a /sign_up request whose
\* hash_password or INSERT fails for another reason than a taken name, is
\* answered with the generic bug response, and that step changes neither the
\* failure counters nor the sessions nor the credentials: the attempt counts
\* neither as a failed nor as a successful login.
C33_FaultsChangeNothing ==
    [][\A t \in Tasks :
          LET Answers == {<<"Unauthorized", "">>,
                          <<"BadRequest", "User does not exist">>,
                          <<"BadRequest", "Username is already in use">>}
              Bug == {<<"NotFound", "BUG">>, <<"InternalServerError", "BUG">>}
          IN  (/\ req[t].pc \in {"login_query", "login_verify", "su_insert"}
               /\ req'[t].pc = "done"
               /\ req'[t].response \notin Answers) =>
                  /\ req'[t].response \in Bug
                  /\ req[t].pc # "su_insert" => req'[t].response = <<"NotFound", "BUG">>
                  /\ failed_logins' = failed_logins
                  /\ fail_streak' = fail_streak
                  /\ user_session_map' = user_session_map
                  /\ credentials' = credentials
      ]_vars

\* a /login request with a wrong password for alice, whose counter stands at
\* 1, met a fault in verify_password, and a /sign_up request for bob met a
\* database fault: the counter is still 1 and bob has no row and no session
C33_Witness ==
    \E t1, t2 \in Tasks :
        /\ req[t1].pc = "done" /\ "row" \in DOMAIN req[t1]
        /\ req[t1].username = "alice" /\ req[t1].password = "pw2"
        /\ req[t1].response = <<"NotFound", "BUG">>
        /\ "alice" \in DOMAIN failed_logins
        /\ failed_logins["alice"].running_count = 1
        /\ req[t2].pc = "done" /\ "reserved" \in DOMAIN req[t2]
        /\ req[t2].username = "bob"
        /\ req[t2].response = <<"InternalServerError", "BUG">>
        /\ "bob" \notin DOMAIN credentials
        /\ GetByLeft(user_session_map, "bob") = {}

\* C34: a sweep preserves what it does not evict.  A prune_expired call of
\* the Logins leaves every failure counter younger than lockout_time with its
\* running_count and timestamp, so is_user_locked_out answers for its user
\* what it answered before the call; a prune_expired call of the Sessions
\* leaves every session younger than max_session_duration with its token,
\* owner, creation_time and renew_count, and its token resolves to its owner.
C34_SweepPreserves ==
    [][\A t \in Tasks :
          /\ LoginsPruneSwept(t) =>
                /\ \A e \in CountersAlive(failed_logins, req) :
                      now - e.data.time < lockout_time =>
                         e \in CountersAlive(failed_logins', req')
                /\ \A e \in Visited(t) :
                      now - e.data.time < lockout_time =>
                         /\ e.username \in DOMAIN failed_logins'
                         /\ failed_logins'[e.username] = e.data
                         /\ IsLockedOut(failed_logins', e.username) =
                               IsLockedOut(MapInsert(<< >>, e.username, e.data),
                                           e.username)
                /\ req[t].pc = "lp_visit" =>
                      \A u \in DOMAIN failed_logins :
                         u \in DOMAIN failed_logins' /\ failed_logins'[u] = failed_logins[u]
          /\ SessionsPruneSwept(t) =>
                /\ \A p \in SessionsAlive(user_session_map, req) :
                      now - p.data.creation_time < max_session_duration =>
                         p \in SessionsAlive(user_session_map', req')
                /\ \A p \in Visited(t) :
                      now - p.data.creation_time < max_session_duration =>
                         /\ p \in user_session_map'
                         /\ GetByLeft(user_session_map', p.username) = Some(p.data)
                         /\ GetSessionOwner(user_session_map', p.data.id) = Some(p.username)
                /\ req[t].pc = "sp_visit" => user_session_map \subseteq user_session_map'
      ]_vars

\* a prune_expired call of the Logins has just swept and left the counter of
\* the user who is locked out, recorded before the sweep, in place, and the
\* sessions hold one that the last sweep of the Sessions left in place
C34_Witness ==
    /\ \A t \in Tasks : req[t].pc = "idle"
    /\ ret.op = "logins_prune_expired"
    /\ ret.val # None
    /\ \E u \in DOMAIN failed_logins :
          /\ is_user_locked_out(u) # None
          /\ failed_logins[u].time < logins_last_cleanup
    /\ sessions_last_cleanup > 0
    /\ \E p \in user_session_map : p.data.creation_time < sessions_last_cleanup

\* C35: legacy try_login_password always returns: called while no other
\* thread holds a lock, the call is never left waiting for the write lock of
\* failed_logins (nor panicking on it), whatever the caller's failure record
\* and password.
C35_TryLoginPasswordReturns ==
    \A t \in Tasks :
        (\A other \in DOMAIN req \ {t} : req[other].pc \in {"idle", "returned"}) =>
            req[t].pc \notin WriteUnderOwnReadGuard

\* C36: legacy Sessions: a session id accepted by is_valid_session has an
\* owner: no handler that passed check_session_id! is answered None by
\* get_session_owner and takes the "valid but not associated with a user"
\* branch.
C36_ValidSessionHasOwner ==
    [][\A t \in Tasks :
          (req[t].pc = "ls_owner" /\ req'[t].pc = "returned") =>
             req'[t].response # BugResponse
      ]_vars

\* C37: legacy key login replay protection.  A try_login_key call returns Ok
\* only for a challenge that is not in used_challenges and puts it there;
\* used_challenges never loses a challenge, so no challenge yields Ok twice,
\* for whichever users; and used_challenges gains a challenge only in a call
\* that returns Ok for it, on a signature that verifies under the key of the
\* user: a rejected attempt consumes nothing.
C37_ChallengeAcceptedOnce ==
    [][/\ used_challenges \subseteq used_challenges'
       /\ \A t \in Tasks :
             (req[t].pc = "lk_lock" /\ req'[t].pc = "returned") =>
                IF req'[t].response = <<"Ok">>
                THEN /\ req[t].challenge \notin used_challenges
                     /\ used_challenges' = used_challenges \cup {req[t].challenge}
                     /\ req[t].signature =
                           Sign(credentials[req[t].username].key, req[t].challenge)
                ELSE used_challenges' = used_challenges
       /\ used_challenges' # used_challenges =>
             \E t \in Tasks : req[t].pc = "lk_lock" /\ req'[t].response = <<"Ok">>
      ]_vars

\* alice logged in with a challenge, and bob, who signed the same challenge
\* with his own key, was told it has been used; an attempt with a signature
\* that does not verify has left its challenge unused
C37_Witness ==
    \E t1, t2 \in Tasks :
        /\ req[t1].pc = "returned" /\ req[t1].response = <<"Ok">>
        /\ req[t1].username = "alice"
        /\ req[t2].pc = "returned" /\ req[t2].response = <<"UsedChallenge">>
        /\ req[t2].username = "bob"
        /\ req[t2].challenge = req[t1].challenge
        /\ req[t2].signature = Sign("key_bob", req[t2].challenge)
        /\ <<"login:", "n2">> \notin used_challenges

\* C38: failure counter bounds.  Every stored failure counter satisfies
\* 1 <= running_count <= max(1, max_fails), and the `+= 1` that
\* mark_failed_login applies to a counter below max_fails stays within u8,
\* for every max_fails from 0 to 255 and any number of calls.
C38_CounterBounds ==
    \A u \in DOMAIN failed_logins :
        LET count == failed_logins[u].running_count
        IN  /\ 1 <= count
            /\ count <= (IF max_fails > 1 THEN max_fails ELSE 1)
            /\ count < max_fails => count + 1 <= U8_MAX

\* with max_fails = 255 the counter of alice was counted up to 255
C38_Witness ==
    /\ max_fails = U8_MAX
    /\ ret.op = "mark_failed_login"
    /\ ret.took = Some(U8_MAX - 1)
    /\ "alice" \in DOMAIN failed_logins
    /\ failed_logins["alice"].running_count = U8_MAX

\* C39: renewal invariants.  Every stored session has
\* 0 <= renew_count <= max_renew_count; the session create_session returns
\* starts with renew_count 0; a renew_session that returns Some keeps the
\* token and the owner of the session, adds exactly 1 to renew_count (within
\* u8), sets creation_time to now and leaves the sessions of all other users
\* as they were.
C39_RenewalInvariants ==
    [][/\ \A p \in user_session_map' :
             0 <= p.data.renew_count /\ p.data.renew_count <= max_renew_count
       /\ \A u \in Usernames :
             /\ StepOf("create_session", u) =>
                   \E id \in Tokens :
                       /\ ret'.val = Some(id)
                       /\ GetByLeft(user_session_map', u) = {SessionData(id, now, 0)}
             /\ (StepOf("renew_session", u) /\ ret'.val # None) =>
                   /\ \E d \in GetByLeft(user_session_map, u) :
                         /\ d.renew_count + 1 <= U8_MAX
                         /\ GetByLeft(user_session_map', u) =
                               {SessionData(d.id, now, d.renew_count + 1)}
                   /\ {p \in user_session_map' : p.username # u} =
                         {p \in user_session_map : p.username # u}
      ]_vars

\* with max_renew_count = 255 the session of alice, created at time 0, was
\* renewed for the 255th time at a later time, next to a session of bob
C39_Witness ==
    /\ max_renew_count = U8_MAX
    /\ ret.op = "renew_session" /\ ret.user = "alice"
    /\ ret.val = Some(0)
    /\ renew_calls["alice"] = U8_MAX
    /\ now > 0
    /\ \E d \in GetByLeft(user_session_map, "alice") :
          d.renew_count = U8_MAX /\ d.creation_time = now
    /\ GetByLeft(user_session_map, "bob") # {}

\* C40: legacy pipe pool.  A pipe is owned by at most one request at a time
\* and a pipe a request owns is not in the free list; a pipe enters the free
\* list only by the return_pipe of the request that owned it and leaves it
\* only by a take_pipe that hands it to a request or by prune_pipes; a
\* handler that returns from a failed write_socket! or read_socket! leaves
\* the free list as it was, and its pipe is not in it.
C40_PipeOwnedByOneRequest ==
    [][/\ \A t1, t2 \in Tasks :
             (/\ t1 # t2
              /\ req'[t1].pc \in PipeOwnerPcs
              /\ req'[t2].pc \in PipeOwnerPcs)
                => req'[t1].socket # req'[t2].socket
       /\ \A t \in Tasks :
             req'[t].pc \in PipeOwnerPcs =>
                /\ req'[t].socket # {}
                /\ req'[t].socket \cap Range(free_pipes') = {}
       /\ \A i, j \in DOMAIN free_pipes' : free_pipes'[i] = free_pipes'[j] => i = j
       /\ \A p \in Range(free_pipes') \ Range(free_pipes) :
             \E t \in Tasks : /\ req[t].pc = "pp_return"
                              /\ req[t].socket = {p}
                              /\ req'[t].pc \notin PipeOwnerPcs
       /\ \A p \in Range(free_pipes) \ Range(free_pipes') :
             \/ \E t \in Tasks : /\ req[t].pc = "pp_pop"
                                 /\ req'[t].pc = "pp_write"
                                 /\ req'[t].socket = {p}
             \/ req' = req /\ free_pipes' = << >>
       /\ \A t \in Tasks :
             (/\ req[t].pc \in {"pp_write", "pp_read", "pp_body"}
              /\ req'[t].pc \in {"returned", "mu_drop"}) =>
                /\ free_pipes' = free_pipes
                /\ req[t].socket \cap Range(free_pipes') = {}
      ]_vars

\* a request failed on the pipe it was handed and has returned; the pipe is
\* not in the free list, while the other request owns another pipe
C40_Witness ==
    \E t1, t2 \in Tasks :
        /\ req[t1].pc = "returned"
        /\ req[t1].response = DbConnection
        /\ req[t1].socket # {}
        /\ req[t1].socket \cap Range(free_pipes) = {}
        /\ req[t2].pc = "pp_read"
        /\ req[t2].socket # {}
        /\ req[t2].socket # req[t1].socket

====
